---------------------------- MODULE Spec2Model ----------------------------
(***************************************************************************)
(* Film identity resolution of media_backup.film_matcher: the title        *)
(* normalizer, the similarity scorer, the resolution cascade               *)
(* (get_match_for_folder) and the batch resolver (match_local_films) with  *)
(* its JSON cache file.                                                    *)
(*                                                                         *)
(* Strings are sequences of one-character strings; a score is an exact     *)
(* rational <<numerator, denominator>> in lowest terms, so that the float  *)
(* comparisons of the code (>= 85, > best_score, ==) are decided exactly.  *)
(***************************************************************************)
EXTENDS Integers, Sequences, FiniteSets, TLC

\* Python's None where a string is optional (a slug, an imdb or tmdb id).
None == "None"

\* Python's None where a dict is optional (a match, a search result).
NoDict == [is_none |-> TRUE]

\* An optional year is an integer, None being 0: the code tests the truth
\* value of a year before every use, and None and 0 are both false.

\* Python truthiness of an optional string (None and "" are false), of an
\* optional year and of a title.
TruthyStr(v) == v # None /\ v # ""

TruthyYear(y) == y # 0

\* A title that is None: the scanner writes "title": null for a folder whose
\* name cleans to nothing. No string is this value.
NoTitle == << "None" >>

TruthyTitle(t) == t # <<>> /\ t # NoTitle

---------------------------------------------------------------------------
(* Characters *)

\* The characters of the model in code-point order (Python compares strings
\* by code point when it sorts the tokens).
CharTable ==
    << " ", "!", "'", "(", ")", ",", "-", ".",
       "0", "1", "2", "3", "4", "5", "6", "7", "8", "9", ":", "?",
       "A", "B", "C", "D", "E", "F", "G", "H", "I", "J", "K", "L", "M",
       "N", "O", "P", "Q", "R", "S", "T", "U", "V", "W", "X", "Y", "Z",
       "[", "]", "_",
       "a", "b", "c", "d", "e", "f", "g", "h", "i", "j", "k", "l", "m",
       "n", "o", "p", "q", "r", "s", "t", "u", "v", "w", "x", "y", "z" >>

Ord(c) == CHOOSE i \in 1..Len(CharTable) : CharTable[i] = c

UpperCase ==
    << "A", "B", "C", "D", "E", "F", "G", "H", "I", "J", "K", "L", "M",
       "N", "O", "P", "Q", "R", "S", "T", "U", "V", "W", "X", "Y", "Z" >>

LowerCase ==
    << "a", "b", "c", "d", "e", "f", "g", "h", "i", "j", "k", "l", "m",
       "n", "o", "p", "q", "r", "s", "t", "u", "v", "w", "x", "y", "z" >>

Digits == {"0", "1", "2", "3", "4", "5", "6", "7", "8", "9"}

\* str.lower() on one character.
LowerChar(c) ==
    IF \E i \in 1..Len(UpperCase) : UpperCase[i] = c
    THEN LowerCase[CHOOSE i \in 1..Len(UpperCase) : UpperCase[i] = c]
    ELSE c

\* What str.strip() and str.split() treat as whitespace.
IsSpace(c) == c = " "

\* The regex class \w, which decides where \b matches.
IsWordChar(c) ==
    \/ c \in Digits
    \/ c = "_"
    \/ \E i \in 1..Len(LowerCase) : LowerCase[i] = c \/ UpperCase[i] = c

---------------------------------------------------------------------------
(* String helpers: the str and re operations normalize_title uses *)

Lower(t) == [i \in 1..Len(t) |-> LowerChar(t[i])]

Drop(t, n) == SubSeq(t, n + 1, Len(t))

StartsWith(t, p) == Len(t) >= Len(p) /\ SubSeq(t, 1, Len(p)) = p

\* str.lstrip(): from the first character that is not whitespace.
LStrip(t) ==
    LET keep == { i \in 1..Len(t) : ~IsSpace(t[i]) }
    IN  IF keep = {} THEN <<>>
        ELSE SubSeq(t, CHOOSE i \in keep : \A j \in keep : i <= j, Len(t))

\* str.rstrip(): up to the last character that is not whitespace.
RStrip(t) ==
    LET keep == { i \in 1..Len(t) : ~IsSpace(t[i]) }
    IN  IF keep = {} THEN <<>>
        ELSE SubSeq(t, 1, CHOOSE i \in keep : \A j \in keep : j <= i)

\* str.strip()
Strip(t) == RStrip(LStrip(t))

\* re.sub(r"\[[^\]]*\]", "", t) with open = "[" and close = "]", and the
\* same for parentheses: each span runs from the leftmost opening character
\* that has a closing character after it to the first closing character.
RECURSIVE StripSpans(_, _, _)
StripSpans(t, open, close) ==
    IF \E i \in 1..Len(t) : t[i] = open /\ \E j \in (i + 1)..Len(t) : t[j] = close
    THEN LET i == CHOOSE x \in 1..Len(t) :
                    /\ t[x] = open
                    /\ \A y \in 1..(x - 1) : t[y] # open
             j == CHOOSE x \in (i + 1)..Len(t) :
                    /\ t[x] = close
                    /\ \A y \in (i + 1)..(x - 1) : t[y] # close
         IN  SubSeq(t, 1, i - 1) \o StripSpans(Drop(t, j), open, close)
    ELSE t

\* str.replace(sub, ""): the non-overlapping occurrences, left to right
\* (what is before the first occurrence, then the same for what follows it).
RECURSIVE RemoveAll(_, _)
RemoveAll(t, sub) ==
    LET hits == { i \in 1..(Len(t) - Len(sub) + 1) :
                    SubSeq(t, i, i + Len(sub) - 1) = sub }
    IN  IF hits = {} THEN t
        ELSE LET i == CHOOSE x \in hits : \A y \in hits : x <= y
             IN  SubSeq(t, 1, i - 1) \o RemoveAll(Drop(t, i + Len(sub) - 1), sub)

\* \b at the gap before position p of t (p in 1..Len(t)+1).
WordBoundary(t, p) ==
    LET before == p > 1 /\ IsWordChar(t[p - 1])
        after  == p <= Len(t) /\ IsWordChar(t[p])
    IN  before # after

\* re.sub(rf"\b{pat}\b", rep, t), scanning from position p: what is before
\* the leftmost match, the replacement, then the same from the end of the match.
RECURSIVE SubWordFrom(_, _, _, _)
SubWordFrom(t, pat, rep, p) ==
    LET hits == { i \in p..(Len(t) - Len(pat) + 1) :
                    /\ SubSeq(t, i, i + Len(pat) - 1) = pat
                    /\ WordBoundary(t, i)
                    /\ WordBoundary(t, i + Len(pat)) }
    IN  IF hits = {} THEN SubSeq(t, p, Len(t))
        ELSE LET i == CHOOSE x \in hits : \A y \in hits : x <= y
             IN  SubSeq(t, p, i - 1) \o rep \o SubWordFrom(t, pat, rep, i + Len(pat))

\* A variant of SubWord that replaces the pattern wherever it occurs, inside
\* words too (re.sub without the \b).
RECURSIVE SubWord_anywhere(_, _, _)
SubWord_anywhere(t, pat, rep) ==
    LET hits == { i \in 1..(Len(t) - Len(pat) + 1) :
                    SubSeq(t, i, i + Len(pat) - 1) = pat }
    IN  IF hits = {} THEN t
        ELSE LET i == CHOOSE x \in hits : \A y \in hits : x <= y
             IN  SubSeq(t, 1, i - 1) \o rep
                    \o SubWord_anywhere(Drop(t, i + Len(pat) - 1), pat, rep)

SubWord(t, pat, rep) == SubWordFrom(t, pat, rep, 1)

\* str.split(): the whitespace-delimited tokens.
RECURSIVE Split(_)
Split(t) ==
    LET s == LStrip(t)
    IN  IF s = <<>> THEN <<>>
        ELSE LET n == IF \E i \in 1..Len(s) : IsSpace(s[i])
                      THEN (CHOOSE i \in 1..Len(s) :
                               IsSpace(s[i]) /\ \A k \in 1..(i - 1) : ~IsSpace(s[k])) - 1
                      ELSE Len(s)
             IN  <<SubSeq(s, 1, n)>> \o Split(Drop(s, n))

\* " ".join(tokens)
RECURSIVE Join(_)
Join(tokens) ==
    IF tokens = <<>> THEN <<>>
    ELSE IF Len(tokens) = 1 THEN tokens[1]
    ELSE tokens[1] \o <<" ">> \o Join(Tail(tokens))

\* Python's str < str: lexicographic by code point, decided at the first
\* position where the two differ.
StrLess(a, b) ==
    LET n == IF Len(a) < Len(b) THEN Len(a) ELSE Len(b)
        diff == { i \in 1..n : a[i] # b[i] }
    IN  IF diff = {} THEN Len(a) < Len(b)
        ELSE LET i == CHOOSE x \in diff : \A y \in diff : x <= y
             IN  Ord(a[i]) < Ord(b[i])

\* sorted(tokens), by insertion.
RECURSIVE InsertSorted(_, _)
InsertSorted(tok, sortedToks) ==
    IF sortedToks = <<>> THEN <<tok>>
    ELSE IF StrLess(tok, sortedToks[1]) THEN <<tok>> \o sortedToks
    ELSE <<sortedToks[1]>> \o InsertSorted(tok, Tail(sortedToks))

RECURSIVE Sorted(_)
Sorted(tokens) ==
    IF tokens = <<>> THEN <<>>
    ELSE InsertSorted(tokens[Len(tokens)], Sorted(SubSeq(tokens, 1, Len(tokens) - 1)))

---------------------------------------------------------------------------
(* Title Normalizer *)

EditionSuffixes ==
    << <<"d","i","r","e","c","t","o","r","s"," ","c","u","t">>,
       <<"d","i","r","e","c","t","o","r","'","s"," ","c","u","t">>,
       <<"r","e","m","a","s","t","e","r","e","d">>,
       <<"e","x","t","e","n","d","e","d">>,
       <<"t","h","e","a","t","r","i","c","a","l">>,
       <<"u","n","r","a","t","e","d">>,
       <<"s","p","e","c","i","a","l"," ","e","d","i","t","i","o","n">> >>

RomanNumerals ==
    << << <<"v","i","i","i">>, <<"8">> >>,
       << <<"v","i","i">>,     <<"7">> >>,
       << <<"v","i">>,         <<"6">> >>,
       << <<"i","v">>,         <<"4">> >>,
       << <<"i","i","i">>,     <<"3">> >>,
       << <<"i","i">>,         <<"2">> >>,
       << <<"v">>,             <<"5">> >>,
       << <<"i">>,             <<"1">> >> >>

Punctuation == << ".", ":", "'", "-", ",", "!", "?" >>

\* for suffix in [...]: t = t.replace(suffix, ""), from the k-th suffix on.
RECURSIVE RemoveSuffixes(_, _)
RemoveSuffixes(t, k) ==
    IF k > Len(EditionSuffixes) \/ t = <<>> THEN t
    ELSE RemoveSuffixes(RemoveAll(t, EditionSuffixes[k]), k + 1)

\* if t.startswith("the "): t = t[4:]
StripThe(t) == IF StartsWith(t, <<"t","h","e"," ">>) THEN Drop(t, 4) ELSE t

\* for roman, digit in [...]: t = re.sub(rf"\b{roman}\b", digit, t), from
\* the k-th numeral on.
RECURSIVE FoldRomans(_, _)
FoldRomans(t, k) ==
    IF k > Len(RomanNumerals) \/ t = <<>> THEN t
    ELSE FoldRomans(SubWord(t, RomanNumerals[k][1], RomanNumerals[k][2]), k + 1)

\* for char in ".:'-,!?": t = t.replace(char, ""), from the k-th on.
RECURSIVE RemovePunctuation(_, _)
RemovePunctuation(t, k) ==
    IF k > Len(Punctuation) \/ t = <<>> THEN t
    ELSE RemovePunctuation(RemoveAll(t, <<Punctuation[k]>>), k + 1)

normalize_title(title) ==
    LET t1 == Strip(Lower(title))
        t2 == StripSpans(t1, "[", "]")
        t3 == StripSpans(t2, "(", ")")
        t4 == RemoveSuffixes(t3, 1)
        t5 == StripThe(t4)
        t6 == FoldRomans(t5, 1)
        t7 == RemovePunctuation(t6, 1)
    IN  Join(Split(t7))

\* t of normalize_title when the loop over the roman numerals begins (after
\* lines 214-230) and when it has ended (after line 242).
BeforeFold(title) ==
    StripThe(RemoveSuffixes(StripSpans(StripSpans(Strip(Lower(title)), "[", "]"),
                                       "(", ")"), 1))

AfterFold(title) == FoldRomans(BeforeFold(title), 1)

---------------------------------------------------------------------------
(* Similarity Scorer *)

RECURSIVE GCD(_, _)
GCD(a, b) == IF b = 0 THEN a ELSE GCD(b, a % b)

\* The rational n/d in lowest terms (d > 0).
Rat(n, d) == LET g == GCD(n, d) IN <<n \div g, d \div g>>

RatGE(x, y) == x[1] * y[2] >= y[1] * x[2]

RatGT(x, y) == x[1] * y[2] > y[1] * x[2]

\* max(x, y) of Python: y only when y > x.
RatMax(x, y) == IF RatGT(y, x) THEN y ELSE x

\* Length of the common run of a from i and b from j, within a[..ahi], b[..bhi].
RunLen(a, i, ahi, b, j, bhi) ==
    LET room == IF ahi - i < bhi - j THEN ahi - i + 1 ELSE bhi - j + 1
    IN  CHOOSE n \in 0..room :
            /\ \A d \in 0..(n - 1) : a[i + d] = b[j + d]
            /\ n = room \/ a[i + n] # b[j + n]

\* difflib.SequenceMatcher.find_longest_match(alo, ahi, blo, bhi) without
\* junk: the longest matching block, the earliest in a and then in b among
\* the longest. Indices are inclusive; the result is <<i, j, size>>.
FindLongestMatch(a, alo, ahi, b, blo, bhi) ==
    LET Pairs == (alo..ahi) \X (blo..bhi)
        Size(p) == RunLen(a, p[1], ahi, b, p[2], bhi)
    IN  IF \A p \in Pairs : Size(p) = 0 THEN <<alo, blo, 0>>
        ELSE LET best == CHOOSE p \in Pairs :
                    \A q \in Pairs :
                        \/ Size(p) > Size(q)
                        \/ /\ Size(p) = Size(q)
                           /\ \/ p[1] < q[1]
                              \/ p[1] = q[1] /\ p[2] <= q[2]
             IN  <<best[1], best[2], Size(best)>>

\* Sum of the sizes of SequenceMatcher.get_matching_blocks(): the longest
\* block, then recursively the pieces to its left and to its right.
RECURSIVE MatchedChars(_, _, _, _, _, _)
MatchedChars(a, alo, ahi, b, blo, bhi) ==
    IF alo > ahi \/ blo > bhi THEN 0
    ELSE LET m == FindLongestMatch(a, alo, ahi, b, blo, bhi)
         IN  IF m[3] = 0 THEN 0
             ELSE m[3]
                  + MatchedChars(a, alo, m[1] - 1, b, blo, m[2] - 1)
                  + MatchedChars(a, m[1] + m[3], ahi, b, m[2] + m[3], bhi)

\* SequenceMatcher(None, s1, s2).ratio() * 100
SequenceMatcherScore(s1, s2) ==
    IF Len(s1) + Len(s2) = 0 THEN Rat(100, 1)
    ELSE Rat(200 * MatchedChars(s1, 1, Len(s1), s2, 1, Len(s2)), Len(s1) + Len(s2))

\* One row of the longest-common-subsequence table: from the row of the
\* prefixes of b against a[1..i-1], the row against a[1..i], where c = a[i]
\* (row[j + 1] is the length for b[1..j]; row holds the entries so far).
RECURSIVE LCSRow(_, _, _, _)
LCSRow(c, b, above, row) ==
    IF Len(row) > Len(b) THEN row
    ELSE LET j == Len(row)
             v == IF c = b[j] THEN above[j] + 1
                  ELSE IF above[j + 1] >= row[j] THEN above[j + 1] ELSE row[j]
         IN  LCSRow(c, b, above, Append(row, v))

\* The table, row by row: rows[i + 1] is the row of a[1..i].
RECURSIVE LCSRows(_, _, _)
LCSRows(a, b, rows) ==
    IF Len(rows) > Len(a) THEN rows
    ELSE LCSRows(a, b, Append(rows, LCSRow(a[Len(rows)], b, rows[Len(rows)], <<0>>)))

\* Length of a longest common subsequence of a and b.
LCS(a, b) ==
    LCSRows(a, b, << [j \in 1..(Len(b) + 1) |-> 0] >>)[Len(a) + 1][Len(b) + 1]

\* rapidfuzz.fuzz.ratio: the normalized Indel similarity, times 100.
RapidfuzzScore(s1, s2) ==
    IF Len(s1) + Len(s2) = 0 THEN Rat(100, 1)
    ELSE Rat(200 * LCS(s1, s2), Len(s1) + Len(s2))

fuzzy_ratio(rf, s1, s2) ==
    IF rf THEN RapidfuzzScore(s1, s2) ELSE SequenceMatcherScore(s1, s2)

token_sort_ratio(rf, s1, s2) ==
    LET tokens1 == Sorted(Split(s1))
        tokens2 == Sorted(Split(s2))
    IN  IF rf THEN RapidfuzzScore(Join(tokens1), Join(tokens2))
        ELSE SequenceMatcherScore(Join(tokens1), Join(tokens2))

\* The score of two titles: lines 272-277 of titles_match, and the same
\* computation in search_letterboxd (lines 131-134).
title_score(rf, title1, title2) ==
    LET norm1 == normalize_title(title1)
        norm2 == normalize_title(title2)
        ratio == fuzzy_ratio(rf, norm1, norm2)
        token_ratio == token_sort_ratio(rf, norm1, norm2)
    IN  RatMax(ratio, token_ratio)

---------------------------------------------------------------------------
(* Bounds and the finite sets the inputs are drawn from *)

\* Runs of match_local_films in one behaviour, items in one batch, entries
\* in one catalog snapshot.
MaxRuns == 2
MaxBatch == 2
MaxCatalog == 2

Folders == {"f1", "f2"}

\* LocalItem as the scanner writes it: folder, title, year and the ids
\* embedded in the file (None when the tag is absent).
LocalItem(folder, title, year, imdb_id) ==
    [ folder |-> folder, title |-> title, year |-> year,
      imdb_id |-> imdb_id, tmdb_id |-> None ]

LocalItems ==
    { LocalItem("f1", <<"A", "b">>, 2010, None),
      LocalItem("f2", <<"x", "y">>, 0, "tt1"),
      LocalItem("f1", <<"q", "q">>, 2010, None) }

\* CatalogEntry as the catalog snapshot provider writes it.
CatalogEntry(film_slug, title, year, imdb_id, tmdb_id) ==
    [ film_slug |-> film_slug, title |-> title, year |-> year,
      imdb_id |-> imdb_id, tmdb_id |-> tmdb_id ]

CatalogEntries ==
    { CatalogEntry("s1", <<"a", "b">>, 2010, "tt1", None),
      CatalogEntry("s2", <<"Q", "q">>, 2011, None, "tm2") }

\* The sequences without repetition of at most n elements of S.
SeqsUpTo(S, n) ==
    UNION { { q \in [1..k -> S] : \A i, j \in 1..k : i # j => q[i] # q[j] } : k \in 0..n }

\* The batches: sequences of at most n items, a folder key may repeat.
BatchesUpTo(S, n) == UNION { [1..k -> S] : k \in 1..n }

Catalogs == SeqsUpTo(CatalogEntries, MaxCatalog) \ {<<>>}

Batches == BatchesUpTo(LocalItems, MaxBatch)

EmptyMap == [k \in {} |-> NoDict]

Override(slug) == [letterboxd_slug |-> slug]

\* manual_overrides.json: no file or no entry, or one entry (its slug is in
\* some of the catalogs and not in others).
OverrideFiles == { EmptyMap, [k \in {"f1"} |-> Override("s2")] }

SearchFilm(name, releaseYear, slug) ==
    [ name |-> name, releaseYear |-> releaseYear, slug |-> slug ]

Response(kind, data) == [kind |-> kind, data |-> data]

\* What letterboxd.com answers to the query with the year and to the plain
\* query: an exception (network, timeout, bad JSON), a non-200 status, an
\* empty result, or a list of films.
Sites ==
    { [ with_year |-> Response("exception", <<>>),
        plain     |-> Response("status", <<>>) ],
      [ with_year |-> Response("empty", <<>>),
        plain     |-> Response("data", << SearchFilm(<<"x", "y">>, 2010, None),
                                          SearchFilm(<<"q", "q", "s">>, 2009, "s3") >>) ] }

\* The inputs of get_match_for_folder when it is called on its own: one
\* folder, titles long enough to score between 85 and 100, a catalog of at
\* most MaxCascadeCatalog entries with equal and different scores, a year
\* outside the window, a missing title and shared ids.
MaxCascadeCatalog == 3

CascadeItems ==
    { LocalItem("f1", title, year, imdb_id) :
        title \in { <<"a", "b", "c", "d", "e", "f", "g", "h">>, <<>> },
        year \in {2000, 0},
        imdb_id \in {None, "tt1", "tt4"} }

CascadeEntries ==
    { CatalogEntry("p", <<"a", "b", "c", "d", "e", "f", "g">>, 2000, "tt1", "tm1"),
      CatalogEntry("q", <<"b", "c", "d", "e", "f", "g", "h">>, 2001, None, None),
      CatalogEntry("r", <<"a", "b", "c", "d", "e", "f", "g", "x">>, 0, "tt1", None),
      CatalogEntry("s", <<"A", "b", "c", "d", "e", "f", "g", "h", "!">>, 2005, "tt4", None),
      CatalogEntry("u", <<"h", "g", " ", "(", "a", ")">>, 1999, None, "tm5"),
      CatalogEntry("v", <<>>, 2000, None, None) }

CascadeCatalogs == SeqsUpTo(CascadeEntries, MaxCascadeCatalog)

\* A cache that earlier runs left, with another catalog and scorer.
CascadeCaches ==
    { EmptyMap,
      [k \in {"f1"} |-> [ letterboxd_slug |-> "old", imdb_id |-> "tt7", tmdb_id |-> None,
                          match_method |-> "fuzzy", match_score |-> <<185, 2>>,
                          matched_at |-> 0 ]],
      [k \in {"f2"} |-> [ letterboxd_slug |-> "p", imdb_id |-> None, tmdb_id |-> None,
                          match_method |-> "letterboxd_search", match_score |-> <<60, 1>>,
                          matched_at |-> 0 ]] }

CascadeOverrides ==
    { EmptyMap, [k \in {"f1"} |-> Override("p")], [k \in {"f1"} |-> Override("s9")],
      [k \in {"f2"} |-> Override("p")] }

CascadeSites ==
    { [ with_year |-> Response("exception", <<>>),
        plain     |-> Response("empty", <<>>) ],
      [ with_year |-> Response("data", << SearchFilm(<<"h", "g">>, 2000, "low"),
                                          SearchFilm(<<"a", "b", "c", "d", "e">>, 2001, "w") >>),
        plain     |-> Response("data", << SearchFilm(<<"a", "b", "c", "d", "e">>, 2003, "far"),
                                          SearchFilm(<<"a", "b", "c", "d", "e", "Z">>, 0, "z") >>) ] }

FilmNames(response) == { response.data[k].name : k \in 1..Len(response.data) }

\* The titles of the model: of the local items (also stripped, as
\* search_letterboxd compares them) on one side, of the catalog entries and
\* of the films the site answers with on the other.
Titles ==
    { m.title : m \in LocalItems \cup CascadeItems }
    \cup { Strip(m.title) : m \in LocalItems \cup CascadeItems }

OtherTitles ==
    { e.title : e \in CatalogEntries \cup CascadeEntries }
    \cup UNION { FilmNames(s.with_year) \cup FilmNames(s.plain) : s \in Sites \cup CascadeSites }

---------------------------------------------------------------------------
(* Matching two titles *)

\* The scorer the module selects when it is imported, rapidfuzz when
\* the import succeeds (rf) and difflib otherwise, as the table of its
\* scores for the titles of the model.
ScoreTable ==
    [ rf \in BOOLEAN |->
        [ title1 \in Titles |->
            [ title2 \in OtherTitles |-> title_score(rf, title1, title2) ] ] ]

\* The score of two titles under the selected scorer.
Score(sim, title1, title2) == sim[title1][title2]

MATCH_THRESHOLD == 85

\* A variant of YearGateRejects that compares the difference without abs.
YearGateRejects_signed(year1, year2) ==
    /\ TruthyYear(year1)
    /\ TruthyYear(year2)
    /\ year1 - year2 > 1

\* if year1 and year2 and abs(year1 - year2) > 1
YearGateRejects(year1, year2) ==
    /\ TruthyYear(year1)
    /\ TruthyYear(year2)
    /\ (IF year1 >= year2 THEN year1 - year2 ELSE year2 - year1) > 1

\* titles_match(title1, title2, year1, year2) -> (match, score)
titles_match(sim, title1, title2, year1, year2) ==
    IF YearGateRejects(year1, year2) THEN <<FALSE, Rat(0, 1)>>
    ELSE LET score == Score(sim, title1, title2)
         IN  <<RatGE(score, Rat(MATCH_THRESHOLD, 1)), score>>

\* normalize_title(None): title.lower() raises AttributeError.
normalize_title_raises(title) == title = NoTitle

\* titles_match raises when it gets past the year filter with a title that
\* is None.
titles_match_raises(title1, title2, year1, year2) ==
    /\ ~YearGateRejects(year1, year2)
    /\ normalize_title_raises(title1) \/ normalize_title_raises(title2)

---------------------------------------------------------------------------
(* Identity records and the external search collaborator *)

\* film.get("title", "") of a catalog entry: a missing title is the empty
\* string.
TitleOf(film) == film.title

create_cache_entry(letterboxd_slug, imdb_id, tmdb_id, match_method, match_score, now) ==
    [ letterboxd_slug |-> letterboxd_slug,
      imdb_id         |-> imdb_id,
      tmdb_id         |-> tmdb_id,
      match_method    |-> match_method,
      match_score     |-> match_score,
      matched_at      |-> now ]

SEARCH_THRESHOLD == 60

\* The loop over data["data"] from the k-th film on: the first film with a
\* slug, within the year window and scoring at least 60, or None. A film
\* without a name has the empty name (film.get("name", "")).
RECURSIVE FirstSearchHit(_, _, _, _, _)
FirstSearchHit(sim, data, k, search_title, year) ==
    IF k > Len(data) THEN NoDict
    ELSE LET film == data[k]
             result_title == film.name
             score == Score(sim, search_title, result_title)
         IN  IF ~TruthyStr(film.slug)
                THEN FirstSearchHit(sim, data, k + 1, search_title, year)
             ELSE IF YearGateRejects(year, film.releaseYear)
                THEN FirstSearchHit(sim, data, k + 1, search_title, year)
             ELSE IF RatGE(score, Rat(SEARCH_THRESHOLD, 1))
                THEN [ slug  |-> film.slug,
                       title |-> result_title,
                       year  |-> film.releaseYear,
                       score |-> score ]
             ELSE FirstSearchHit(sim, data, k + 1, search_title, year)

\* One pass of the loop over the queries: the answer of the site to the
\* query, which is an exception, a non-200 status, an empty result or a
\* list of films.
QueryResult(sim, response, search_title, year) ==
    IF response.kind # "data" THEN NoDict
    ELSE FirstSearchHit(sim, response.data, 1, search_title, year)

\* search_letterboxd(session, title, year): the query with the year first
\* when there is a year, then the plain title; the first hit wins.
search_letterboxd(sim, site, title, year) ==
    LET search_title == Strip(title)
        withYear == IF TruthyYear(year)
                    THEN QueryResult(sim, site.with_year, search_title, year)
                    ELSE NoDict
    IN  IF withYear # NoDict THEN withYear
        ELSE QueryResult(sim, site.plain, search_title, year)

---------------------------------------------------------------------------
(* Resolution Cascade *)

\* Index of the first catalog entry with the given slug, or 0.
FirstWithSlug(letterboxd_films, slug) ==
    IF \E k \in 1..Len(letterboxd_films) : letterboxd_films[k].film_slug = slug
    THEN CHOOSE k \in 1..Len(letterboxd_films) :
            /\ letterboxd_films[k].film_slug = slug
            /\ \A j \in 1..(k - 1) : letterboxd_films[j].film_slug # slug
    ELSE 0

\* Index of the first catalog entry with the given imdb id, or 0.
FirstWithImdb(letterboxd_films, imdb) ==
    IF \E k \in 1..Len(letterboxd_films) : letterboxd_films[k].imdb_id = imdb
    THEN CHOOSE k \in 1..Len(letterboxd_films) :
            /\ letterboxd_films[k].imdb_id = imdb
            /\ \A j \in 1..(k - 1) : letterboxd_films[j].imdb_id # imdb
    ELSE 0

\* A variant of OverrideStage that never looks the slug up in the catalog.
OverrideStage_no_ids(now, folder, overrides, letterboxd_films) ==
    create_cache_entry(overrides[folder].letterboxd_slug, None, None,
                       "manual_override", Rat(100, 1), now)

\* 2. Check manual overrides (the folder is in overrides).
OverrideStage(now, folder, overrides, letterboxd_films) ==
    LET slug == overrides[folder].letterboxd_slug
        k == FirstWithSlug(letterboxd_films, slug)
    IN  IF k # 0
        THEN create_cache_entry(slug, letterboxd_films[k].imdb_id,
                                letterboxd_films[k].tmdb_id, "manual_override",
                                Rat(100, 1), now)
        ELSE create_cache_entry(slug, None, None, "manual_override", Rat(100, 1), now)

\* A variant of EmbeddedStage that compares the embedded id with tmdb_id.
EmbeddedStage_by_tmdb(now, letterboxd_films, embedded_imdb) ==
    LET hits == { k \in 1..Len(letterboxd_films) :
                    letterboxd_films[k].tmdb_id = embedded_imdb }
    IN  IF TruthyStr(embedded_imdb) /\ hits # {}
        THEN LET k == CHOOSE i \in hits : \A j \in hits : i <= j
             IN  create_cache_entry(letterboxd_films[k].film_slug, embedded_imdb,
                                    letterboxd_films[k].tmdb_id, "embedded_metadata",
                                    Rat(100, 1), now)
        ELSE NoDict

\* 3. Check embedded IMDB ID: the entry, or None.
EmbeddedStage(now, letterboxd_films, embedded_imdb) ==
    LET k == IF TruthyStr(embedded_imdb)
             THEN FirstWithImdb(letterboxd_films, embedded_imdb)
             ELSE 0
    IN  IF k # 0
        THEN create_cache_entry(letterboxd_films[k].film_slug, embedded_imdb,
                                letterboxd_films[k].tmdb_id, "embedded_metadata",
                                Rat(100, 1), now)
        ELSE NoDict

\* A variant of FuzzyImproves that also replaces the best match on a tie.
FuzzyImproves_or_ties(m, best_score) == m[1] /\ RatGE(m[2], best_score)

\* if match and score > best_score
FuzzyImproves(m, best_score) == m[1] /\ RatGT(m[2], best_score)

\* The loop of stage 4 from the k-th film on; best is <<index, score>> of
\* best_match so far (index 0: best_match is None).
RECURSIVE FuzzyScan(_, _, _, _, _, _)
FuzzyScan(sim, title, year, letterboxd_films, k, best) ==
    IF k > Len(letterboxd_films) THEN best
    ELSE LET film == letterboxd_films[k]
             m == titles_match(sim, title, TitleOf(film), year, film.year)
         IN  IF FuzzyImproves(m, best[2])
             THEN FuzzyScan(sim, title, year, letterboxd_films, k + 1, <<k, m[2]>>)
             ELSE FuzzyScan(sim, title, year, letterboxd_films, k + 1, best)

\* 4. Fuzzy match against known Letterboxd films: the entry, or None.
FuzzyStage(sim, now, title, year, letterboxd_films) ==
    LET best == FuzzyScan(sim, title, year, letterboxd_films, 1, <<0, Rat(0, 1)>>)
    IN  IF best[1] # 0
        THEN create_cache_entry(letterboxd_films[best[1]].film_slug,
                                letterboxd_films[best[1]].imdb_id,
                                letterboxd_films[best[1]].tmdb_id,
                                "fuzzy", best[2], now)
        ELSE NoDict

\* A variant of SearchStage that leaves the match method of the record unset.
SearchStage_without_method(sim, now, site, title, year) ==
    LET result == search_letterboxd(sim, site, title, year)
    IN  IF result # NoDict
        THEN create_cache_entry(result.slug, None, None, None, result.score, now)
        ELSE NoDict

\* A variant of SearchStage that makes a record of a search without a result.
SearchStage_records_failure(sim, now, site, title, year) ==
    LET result == search_letterboxd(sim, site, title, year)
    IN  IF result # NoDict
        THEN create_cache_entry(result.slug, None, None, "letterboxd_search",
                                result.score, now)
        ELSE create_cache_entry(None, None, None, "letterboxd_search", Rat(0, 1), now)

\* 5. Search Letterboxd directly: the entry, or None.
SearchStage(sim, now, site, title, year) ==
    LET result == search_letterboxd(sim, site, title, year)
    IN  IF result # NoDict
        THEN create_cache_entry(result.slug, None, None, "letterboxd_search",
                                result.score, now)
        ELSE NoDict

\* A variant of UncachedCascade that looks at the embedded id before the
\* manual overrides.
UncachedCascade_embedded_first(sim, now, folder, title, year, overrides, letterboxd_films, embedded_imdb, session, site) ==
    LET embedded == EmbeddedStage(now, letterboxd_films, embedded_imdb)
        fuzzy == FuzzyStage(sim, now, title, year, letterboxd_films)
    IN  IF embedded # NoDict
        THEN [ match    |-> embedded,
               stages   |-> <<"embedded">>,
               searches |-> 0 ]
        ELSE IF folder \in DOMAIN overrides
        THEN [ match    |-> OverrideStage(now, folder, overrides, letterboxd_films),
               stages   |-> <<"embedded", "override">>,
               searches |-> 0 ]
        ELSE IF fuzzy # NoDict
        THEN [ match    |-> fuzzy,
               stages   |-> <<"embedded", "override", "fuzzy">>,
               searches |-> 0 ]
        ELSE IF session /\ TruthyTitle(title)
        THEN [ match    |-> SearchStage(sim, now, site, title, year),
               stages   |-> <<"embedded", "override", "fuzzy", "search">>,
               searches |-> 1 ]
        ELSE [ match    |-> NoDict,
               stages   |-> <<"embedded", "override", "fuzzy">>,
               searches |-> 0 ]

\* A variant of UncachedCascade that searches for a movie without a title too.
UncachedCascade_searches_untitled(sim, now, folder, title, year, overrides, letterboxd_films, embedded_imdb, session, site) ==
    IF folder \in DOMAIN overrides
    THEN [ match    |-> OverrideStage(now, folder, overrides, letterboxd_films),
           stages   |-> <<"override">>,
           searches |-> 0 ]
    ELSE LET embedded == EmbeddedStage(now, letterboxd_films, embedded_imdb)
             fuzzy == FuzzyStage(sim, now, title, year, letterboxd_films)
         IN  IF embedded # NoDict
             THEN [ match    |-> embedded,
                    stages   |-> <<"override", "embedded">>,
                    searches |-> 0 ]
             ELSE IF fuzzy # NoDict
             THEN [ match    |-> fuzzy,
                    stages   |-> <<"override", "embedded", "fuzzy">>,
                    searches |-> 0 ]
             ELSE IF session
             THEN [ match    |-> SearchStage(sim, now, site, title, year),
                    stages   |-> <<"override", "embedded", "fuzzy", "search">>,
                    searches |-> 1 ]
             ELSE [ match    |-> NoDict,
                    stages   |-> <<"override", "embedded", "fuzzy">>,
                    searches |-> 0 ]

\* Stages 2 to 6 of get_match_for_folder, for a folder that is not in the
\* cache. The result is the match (a cache entry or None), the stages that
\* were executed, in order, and the number of search_letterboxd calls.
UncachedCascade(sim, now, folder, title, year, overrides, letterboxd_films, embedded_imdb, session, site) ==
    IF folder \in DOMAIN overrides
    THEN [ match    |-> OverrideStage(now, folder, overrides, letterboxd_films),
           stages   |-> <<"override">>,
           searches |-> 0 ]
    ELSE LET embedded == EmbeddedStage(now, letterboxd_films, embedded_imdb)
             fuzzy == FuzzyStage(sim, now, title, year, letterboxd_films)
         IN  IF embedded # NoDict
             THEN [ match    |-> embedded,
                    stages   |-> <<"override", "embedded">>,
                    searches |-> 0 ]
             ELSE IF fuzzy # NoDict
             THEN [ match    |-> fuzzy,
                    stages   |-> <<"override", "embedded", "fuzzy">>,
                    searches |-> 0 ]
             ELSE IF session /\ TruthyTitle(title)
             THEN [ match    |-> SearchStage(sim, now, site, title, year),
                    stages   |-> <<"override", "embedded", "fuzzy", "search">>,
                    searches |-> 1 ]
             ELSE [ match    |-> NoDict,
                    stages   |-> <<"override", "embedded", "fuzzy">>,
                    searches |-> 0 ]

\* A variant of get_match_for_folder that lets a manual override win over a
\* cached record.
get_match_for_folder_overrides_first(sim, now, folder, title, year, cache, overrides, letterboxd_films, embedded_imdb, session, site) ==
    IF folder \in DOMAIN cache /\ folder \notin DOMAIN overrides
    THEN [ match |-> cache[folder], stages |-> <<"cache">>, searches |-> 0 ]
    ELSE LET r == UncachedCascade(sim, now, folder, title, year, overrides,
                                  letterboxd_films, embedded_imdb, session, site)
         IN  [ match    |-> r.match,
               stages   |-> <<"cache">> \o r.stages,
               searches |-> r.searches ]

\* get_match_for_folder: cache -> override -> embedded -> fuzzy -> search.
get_match_for_folder(sim, now, folder, title, year, cache, overrides, letterboxd_films, embedded_imdb, session, site) ==
    IF folder \in DOMAIN cache
    THEN [ match |-> cache[folder], stages |-> <<"cache">>, searches |-> 0 ]
    ELSE LET r == UncachedCascade(sim, now, folder, title, year, overrides,
                                  letterboxd_films, embedded_imdb, session, site)
         IN  [ match    |-> r.match,
               stages   |-> <<"cache">> \o r.stages,
               searches |-> r.searches ]

\* get_match_for_folder raises: the folder is neither in the cache nor in the
\* overrides, no entry has the embedded id, and the loop of stage 4 comes to
\* an entry with which titles_match raises. Nothing in the function catches
\* the exception.
get_match_for_folder_raises(folder, title, year, cache, overrides, letterboxd_films, embedded_imdb) ==
    /\ folder \notin DOMAIN cache
    /\ folder \notin DOMAIN overrides
    /\ EmbeddedStage(0, letterboxd_films, embedded_imdb) = NoDict
    /\ \E k \in 1..Len(letterboxd_films) :
            titles_match_raises(title, TitleOf(letterboxd_films[k]), year,
                                letterboxd_films[k].year)

---------------------------------------------------------------------------
(* Batch Resolver: match_local_films and the cache file *)

VARIABLES
    similarity,        \* the scorer selected at import: rapidfuzz or difflib
    cacheFile,         \* film_id_cache.json: [exists, content]
    overridesFile,     \* manual_overrides.json
    catalog,           \* the Letterboxd films given to the next run
    site,              \* what letterboxd.com answers
    clock,             \* datetime.now(), in runs
    pc,                \* "idle", or "running" inside match_local_films
    force_rematch,     \* arguments and locals of the run
    dry_run,
    local_movies,
    next,              \* index of the next movie of the for loop
    cache,
    overrides,
    unmatched_movies,
    matched_count,
    given,             \* history: local_movies as the run was given it
    log,               \* history: what get_match_for_folder did for each movie
    prev,              \* history: the last finished run, while nothing it read changed
    pending,           \* history: the folders of the movies the last run left unmatched
    unparsable,        \* the files among "cache", "overrides" whose text is not JSON
    rate_limiter,      \* ratings.rate_limiter: [min_delay, last_request, lock]
    workers,           \* the threads of the pool: where each is in wait and after it
    wallclock,         \* time.time(), in tenths of a second
    requests,          \* history: the requests issued, [domain, at, worker]
    media_library,     \* media_library.json: [exists, content]
    lb_cache_dir,      \* the Letterboxd cache directory: [exists, files]
    sys_exit,          \* the arguments of the calls of sys.exit, in order
    enricher,          \* "letterboxd_ids" or "ratings": whose enrich_films_with_... runs
    enrich_pc,         \* where the main thread of the enrichment is
    force_scrape,      \* force_scrape of letterboxd_ids, force of ratings
    film_list,         \* films: the films given, enriched in place
    film_cache,        \* the cache dict of the enrichment
    film_cache_file,   \* letterboxd_films.json or ratings_cache.json: [exists, content]
    cache_lock,        \* "free", or the thread that holds cache_lock
    futures,           \* the futures of the pool: [film, state, result]
    completed,         \* i + 1 of letterboxd_ids, completed of ratings
    unreachable,       \* the slugs whose pages cannot be fetched
    loaded             \* history: the cache dict as the prefilter found it

vars ==
    << similarity, cacheFile, overridesFile, catalog, site, clock, pc,
       force_rematch, dry_run, local_movies, next, cache, overrides,
       unmatched_movies, matched_count, given, log, prev, pending, unparsable,
       rate_limiter, workers, wallclock, requests,
       media_library, lb_cache_dir, sys_exit,
       enricher, enrich_pc, force_scrape, film_list, film_cache, film_cache_file,
       cache_lock, futures, completed, unreachable, loaded >>

\* The state of the resolver and the state of the rate limiter and its pool.
matcherVars ==
    << similarity, cacheFile, overridesFile, catalog, site, clock, pc,
       force_rematch, dry_run, local_movies, next, cache, overrides,
       unmatched_movies, matched_count, given, log, prev, pending, unparsable >>

limiterVars == << rate_limiter, workers, wallclock, requests >>

\* What main reads before it calls match_local_films, and how it exits.
cliVars == << media_library, lb_cache_dir, sys_exit >>

\* The state of enrich_films_with_ids and enrich_films_with_ratings.
enrichVars ==
    << enricher, enrich_pc, force_scrape, film_list, film_cache, film_cache_file,
       cache_lock, futures, completed, unreachable, loaded >>

env == << similarity, overridesFile, catalog, site >>

run == << force_rematch, dry_run, local_movies, next, cache, overrides,
          unmatched_movies, matched_count, given, log >>

\* A variant of load_film_id_cache that takes the file as missing.
load_film_id_cache_missing(file) == EmptyMap

\* load_film_id_cache(): the file's mapping, or {} when there is no file.
load_film_id_cache(file) == IF file.exists THEN file.content ELSE EmptyMap

\* json.loads(path.read_text()) of load_film_id_cache raises when the file
\* is there and its text is not JSON; bad is the set of such files.
load_film_id_cache_raises(file, bad) == file.exists /\ "cache" \in bad

\* json.loads(path.read_text()) of load_manual_overrides raises likewise.
load_manual_overrides_raises(bad) == "overrides" \in bad

\* A variant of load_manual_overrides that finds no override.
load_manual_overrides_nothing(file) == EmptyMap

\* load_manual_overrides(): the mapping of manual_overrides.json, {} when
\* there is no file (overridesFile is the empty mapping then).
load_manual_overrides(file) == file

\* Lines 408-409 raise: the cache is loaded unless force_rematch, the
\* overrides always.
LoadRaises(file, bad, force) ==
    \/ ~force /\ load_film_id_cache_raises(file, bad)
    \/ load_manual_overrides_raises(bad)

\* save_film_id_cache(cache): the file holds the whole mapping.
save_film_id_cache(c) == [exists |-> TRUE, content |-> c]

\* A variant of SaveUnlessDryRun that saves in a dry run too.
SaveUnlessDryRun_always_saves(file, c, dry) == save_film_id_cache(c)

\* if not dry_run: save_film_id_cache(cache)
SaveUnlessDryRun(file, c, dry) == IF dry THEN file ELSE save_film_id_cache(c)

\* A variant of InitialCache that loads the file in a forced run too.
InitialCache_ignores_force(file, force) == load_film_id_cache(file)

\* cache = {} if force_rematch else load_film_id_cache()
InitialCache(file, force) == IF force THEN EmptyMap ELSE load_film_id_cache(file)

\* The five assignments movie[...] = match.get(...).
Enrich(movie, match) ==
    [ folder          |-> movie.folder,
      title           |-> movie.title,
      year            |-> movie.year,
      letterboxd_slug |-> match.letterboxd_slug,
      imdb_id         |-> match.imdb_id,
      tmdb_id         |-> match.tmdb_id,
      match_method    |-> match.match_method,
      match_score     |-> match.match_score ]

\* A variant of Put that keeps no other folder's record.
Put_only_this_folder(c, folder, match) == [k \in {folder} |-> match]

\* cache[folder] = match
Put(c, folder, match) ==
    [k \in DOMAIN c \cup {folder} |-> IF k = folder THEN match ELSE c[k]]

\* A variant of LoopBody that stores the result in the cache when it is None too.
LoopBody_caches_unmatched(st, k, r) ==
    [ local_movies     |-> IF r.match # NoDict
                           THEN [st.local_movies EXCEPT ![k] = Enrich(@, r.match)]
                           ELSE st.local_movies,
      cache            |-> Put(st.cache, st.local_movies[k].folder, r.match),
      unmatched_movies |-> IF r.match # NoDict
                           THEN st.unmatched_movies
                           ELSE Append(st.unmatched_movies, st.local_movies[k]),
      matched_count    |-> IF r.match # NoDict
                           THEN st.matched_count + 1
                           ELSE st.matched_count ]

\* A variant of LoopBody that does not report the movie it could not match.
LoopBody_drops_unmatched(st, k, r) ==
    IF r.match # NoDict
    THEN [ local_movies     |-> [st.local_movies EXCEPT ![k] = Enrich(@, r.match)],
           cache            |-> Put(st.cache, st.local_movies[k].folder, r.match),
           unmatched_movies |-> st.unmatched_movies,
           matched_count    |-> st.matched_count + 1 ]
    ELSE [ local_movies     |-> st.local_movies,
           cache            |-> st.cache,
           unmatched_movies |-> st.unmatched_movies,
           matched_count    |-> st.matched_count ]

\* A variant of LoopBody that enriches the movie and leaves the cache of the
\* run as it is.
LoopBody_without_cache_write(st, k, r) ==
    IF r.match # NoDict
    THEN [ local_movies     |-> [st.local_movies EXCEPT ![k] = Enrich(@, r.match)],
           cache            |-> st.cache,
           unmatched_movies |-> st.unmatched_movies,
           matched_count    |-> st.matched_count + 1 ]
    ELSE [ local_movies     |-> st.local_movies,
           cache            |-> st.cache,
           unmatched_movies |-> Append(st.unmatched_movies, st.local_movies[k]),
           matched_count    |-> st.matched_count ]

\* The body of the for loop for one movie, from the state st of the loop
\* (local_movies, cache, unmatched_movies, matched_count) to the next.
LoopBody(st, k, r) ==
    IF r.match # NoDict
    THEN [ local_movies     |-> [st.local_movies EXCEPT ![k] = Enrich(@, r.match)],
           cache            |-> Put(st.cache, st.local_movies[k].folder, r.match),
           unmatched_movies |-> st.unmatched_movies,
           matched_count    |-> st.matched_count + 1 ]
    ELSE [ local_movies     |-> st.local_movies,
           cache            |-> st.cache,
           unmatched_movies |-> Append(st.unmatched_movies, st.local_movies[k]),
           matched_count    |-> st.matched_count ]

\* The call of get_match_for_folder for the k-th movie.
MatchMovie(sim, now, movie, c, ov, films, s) ==
    get_match_for_folder(sim, now, movie.folder, movie.title, movie.year, c, ov,
                         films, movie.imdb_id, TRUE, s)

---------------------------------------------------------------------------
(* RateLimiter and the worker pool of ratings.py *)

\* RATE_LIMIT_DELAY = 0.3, in tenths of a second.
RATE_LIMIT_DELAY == 3

\* Threads of the pool, requests one thread issues, and the time the model
\* follows after the start.
MaxWorkers == 2
MaxRequests == 2
MaxTime == 4

Workers == 1..MaxWorkers

\* The domains the workers of ratings.py wait for.
Domains == {"letterboxd.com", "imdb.com"}

\* time.time() when the pool starts: more than min_delay after 0, the time
\* of last_request.get(domain, 0) for a domain not yet requested.
StartTime == RATE_LIMIT_DELAY

\* RateLimiter(): min_delay, an empty last_request and a free lock (0).
RateLimiter(min_delay) ==
    [ min_delay    |-> min_delay,
      last_request |-> [d \in {} |-> 0],
      lock         |-> 0 ]

\* self.last_request.get(domain, 0)
LastRequest(limiter, domain) ==
    IF domain \in DOMAIN limiter.last_request THEN limiter.last_request[domain] ELSE 0

\* wait_time = self.min_delay - (now - last)
WaitTime(limiter, domain, now) == limiter.min_delay - (now - LastRequest(limiter, domain))

\* No enrichment is running and none has run.
EnrichIdle ==
    /\ enricher = "ratings"
    /\ enrich_pc = "idle"
    /\ force_scrape = FALSE
    /\ film_list = <<>>
    /\ film_cache = EmptyMap
    /\ film_cache_file = [exists |-> FALSE, content |-> EmptyMap]
    /\ cache_lock = "free"
    /\ futures = <<>>
    /\ completed = 0
    /\ unreachable = {}
    /\ loaded = EmptyMap

\* main is not running: match_local_films is called by another caller, which
\* has read the library and the catalog itself.
CliIdle ==
    /\ media_library = [exists |-> FALSE, content |-> <<>>]
    /\ lb_cache_dir = [exists |-> FALSE, files |-> <<>>]
    /\ sys_exit = <<>>

LimiterIdle ==
    /\ rate_limiter = RateLimiter(RATE_LIMIT_DELAY)
    /\ workers = [w \in Workers |-> [pc |-> "idle", domain |-> None, called |-> 0, wake |-> 0, sent |-> 0]]
    /\ wallclock = StartTime
    /\ requests = {}

\* rate_limiter.wait(domain) is called: the thread arrives at
\* `with self.lock` (line 40) at the time called.
CallWait(w, domain) ==
    /\ workers[w].pc = "idle"
    /\ workers[w].sent < MaxRequests
    /\ workers' = [workers EXCEPT ![w] =
                    [ pc     |-> "at_lock",
                      domain |-> domain,
                      called |-> wallclock,
                      wake   |-> 0,
                      sent   |-> @.sent ]]
    /\ UNCHANGED << rate_limiter, wallclock, requests >>
    /\ UNCHANGED matcherVars
    /\ UNCHANGED cliVars
    /\ UNCHANGED enrichVars

\* if wait_time > 0: time.sleep(wait_time): the time at which the sleep ends.
SleepUntil(limiter, domain, now) ==
    IF WaitTime(limiter, domain, now) > 0 THEN now + WaitTime(limiter, domain, now) ELSE now

\* wait(domain), lines 40-43: the thread takes the lock, reads the time and
\* the last request of the domain, and knows until when it has to sleep.
EnterWait(w) ==
    /\ workers[w].pc = "at_lock"
    /\ rate_limiter.lock = 0
    /\ rate_limiter' = [rate_limiter EXCEPT !.lock = w]
    /\ workers' = [workers EXCEPT
                     ![w].pc = "in_wait",
                     ![w].wake = SleepUntil(rate_limiter, workers[w].domain, wallclock)]
    /\ UNCHANGED << wallclock, requests >>
    /\ UNCHANGED matcherVars
    /\ UNCHANGED cliVars
    /\ UNCHANGED enrichVars

\* wait(domain), lines 44-46: the sleep is over (time.sleep sleeps at least
\* wait_time), the thread records the time and leaves the lock.
LeaveWait(w) ==
    /\ workers[w].pc = "in_wait"
    /\ wallclock >= workers[w].wake
    /\ rate_limiter' = [rate_limiter EXCEPT
                          !.last_request =
                              [d \in DOMAIN @ \cup {workers[w].domain} |->
                                  IF d = workers[w].domain THEN wallclock ELSE @[d]],
                          !.lock = 0]
    /\ workers' = [workers EXCEPT ![w].pc = "permitted"]
    /\ UNCHANGED << wallclock, requests >>
    /\ UNCHANGED matcherVars
    /\ UNCHANGED cliVars
    /\ UNCHANGED enrichVars

\* The statement after rate_limiter.wait(domain): session.get sends the
\* request.
IssueRequest(w) ==
    /\ workers[w].pc = "permitted"
    /\ requests' = requests \cup {[ domain |-> workers[w].domain,
                                    at     |-> wallclock,
                                    worker |-> w ]}
    /\ workers' = [workers EXCEPT ![w] =
                    [ pc |-> "idle", domain |-> None, called |-> 0, wake |-> 0, sent |-> @.sent + 1 ]]
    /\ UNCHANGED << rate_limiter, wallclock >>
    /\ UNCHANGED matcherVars
    /\ UNCHANGED cliVars
    /\ UNCHANGED enrichVars

\* Time passes, whatever the threads are doing.
Tick ==
    /\ wallclock < StartTime + MaxTime
    /\ wallclock' = wallclock + 1
    /\ UNCHANGED << rate_limiter, workers, requests >>
    /\ UNCHANGED matcherVars
    /\ UNCHANGED cliVars
    /\ UNCHANGED enrichVars

Init ==
    /\ LimiterIdle
    /\ CliIdle
    /\ EnrichIdle
    /\ similarity \in { ScoreTable[rf] : rf \in BOOLEAN }
    /\ cacheFile = [exists |-> FALSE, content |-> EmptyMap]
    /\ overridesFile \in OverrideFiles
    /\ catalog \in Catalogs
    /\ site \in Sites
    /\ clock = 0
    /\ pc = "idle"
    /\ force_rematch = FALSE
    /\ dry_run = FALSE
    /\ local_movies = <<>>
    /\ next = 1
    /\ cache = EmptyMap
    /\ overrides = EmptyMap
    /\ unmatched_movies = <<>>
    /\ matched_count = 0
    /\ given = <<>>
    /\ log = <<>>
    /\ prev = NoDict
    /\ pending = {}
    /\ unparsable = {}

\* match_local_films is called: lines 408-413.
StartRun(batch, force, dry) ==
    /\ pc \in {"idle", "raised"}
    /\ clock < MaxRuns
    /\ ~LoadRaises(cacheFile, unparsable, force)
    /\ pc' = "running"
    /\ clock' = clock + 1
    /\ force_rematch' = force
    /\ dry_run' = dry
    /\ local_movies' = batch
    /\ given' = batch
    /\ next' = 1
    /\ cache' = InitialCache(cacheFile, force)
    /\ overrides' = load_manual_overrides(overridesFile)
    /\ unmatched_movies' = <<>>
    /\ matched_count' = 0
    /\ log' = <<>>
    /\ UNCHANGED << env, cacheFile, prev, pending, unparsable >>
    /\ UNCHANGED limiterVars
    /\ UNCHANGED cliVars
    /\ UNCHANGED enrichVars

\* One iteration of the for loop: lines 415-451.
ProcessMovie ==
    /\ pc = "running"
    /\ next <= Len(local_movies)
    /\ ~get_match_for_folder_raises(local_movies[next].folder, local_movies[next].title,
                                    local_movies[next].year, cache, overrides, catalog,
                                    local_movies[next].imdb_id)
    /\ LET movie == local_movies[next]
           r == MatchMovie(similarity, clock, movie, cache, overrides, catalog, site)
           st == LoopBody([ local_movies     |-> local_movies,
                            cache            |-> cache,
                            unmatched_movies |-> unmatched_movies,
                            matched_count    |-> matched_count ], next, r)
       IN  /\ local_movies' = st.local_movies
           /\ cache' = st.cache
           /\ unmatched_movies' = st.unmatched_movies
           /\ matched_count' = st.matched_count
           /\ log' = Append(log, [ folder   |-> movie.folder,
                                   before   |-> IF movie.folder \in DOMAIN cache
                                                THEN cache[movie.folder] ELSE NoDict,
                                   match    |-> r.match,
                                   stages   |-> r.stages,
                                   searches |-> r.searches ])
    /\ next' = next + 1
    /\ UNCHANGED << env, cacheFile, clock, pc, force_rematch, dry_run, overrides,
                    given, prev, pending, unparsable >>
    /\ UNCHANGED limiterVars
    /\ UNCHANGED cliVars
    /\ UNCHANGED enrichVars

\* After the loop: lines 453-461. The run returns local_movies and
\* unmatched_movies (kept in prev) and its locals are gone.
FinishRun ==
    /\ pc = "running"
    /\ next > Len(local_movies)
    /\ cacheFile' = SaveUnlessDryRun(cacheFile, cache, dry_run)
    /\ pc' = "idle"
    /\ prev' = [ given            |-> given,
                 force_rematch    |-> force_rematch,
                 dry_run          |-> dry_run,
                 file_before      |-> cacheFile,
                 local_movies     |-> local_movies,
                 unmatched_movies |-> unmatched_movies ]
    /\ pending' = { unmatched_movies[k].folder : k \in 1..Len(unmatched_movies) }
    /\ force_rematch' = FALSE
    /\ dry_run' = FALSE
    /\ local_movies' = <<>>
    /\ next' = 1
    /\ cache' = EmptyMap
    /\ overrides' = EmptyMap
    /\ unmatched_movies' = <<>>
    /\ matched_count' = 0
    /\ given' = <<>>
    /\ log' = <<>>
    /\ unparsable' = IF dry_run THEN unparsable ELSE unparsable \ {"cache"}
    /\ UNCHANGED << env, clock >>
    /\ UNCHANGED limiterVars
    /\ UNCHANGED cliVars
    /\ UNCHANGED enrichVars

\* An exception leaves match_local_films at line 421: get_match_for_folder
\* raised and the loop has no handler. Nothing after the loop is executed;
\* the locals stay in the model as they were when the exception left.
RaiseInRun ==
    /\ pc = "running"
    /\ next <= Len(local_movies)
    /\ get_match_for_folder_raises(local_movies[next].folder, local_movies[next].title,
                                   local_movies[next].year, cache, overrides, catalog,
                                   local_movies[next].imdb_id)
    /\ pc' = "raised"
    /\ UNCHANGED << env, cacheFile, clock, run, prev, pending, unparsable >>
    /\ UNCHANGED limiterVars
    /\ UNCHANGED cliVars
    /\ UNCHANGED enrichVars

\* match_local_films is called and line 408 or 409 raises: the exception
\* leaves the function before the loop (next is 0, no local is bound but the
\* arguments).
RaiseAtLoad(batch, force, dry) ==
    /\ pc \in {"idle", "raised"}
    /\ clock < MaxRuns
    /\ LoadRaises(cacheFile, unparsable, force)
    /\ pc' = "raised"
    /\ clock' = clock + 1
    /\ force_rematch' = force
    /\ dry_run' = dry
    /\ local_movies' = <<>>
    /\ given' = <<>>
    /\ next' = 0
    /\ cache' = EmptyMap
    /\ overrides' = EmptyMap
    /\ unmatched_movies' = <<>>
    /\ matched_count' = 0
    /\ log' = <<>>
    /\ UNCHANGED << env, cacheFile, prev, pending, unparsable >>
    /\ UNCHANGED limiterVars
    /\ UNCHANGED cliVars
    /\ UNCHANGED enrichVars

\* Between runs the text of a file stops being JSON (a hand edit of
\* manual_overrides.json, a cache file cut short).
DamageFile(name) ==
    /\ pc \in {"idle", "raised"}
    /\ name \notin unparsable
    /\ name = "cache" => cacheFile.exists
    /\ unparsable' = unparsable \cup {name}
    /\ prev' = NoDict
    /\ UNCHANGED << env, cacheFile, clock, pc, run, pending >>
    /\ UNCHANGED limiterVars
    /\ UNCHANGED cliVars
    /\ UNCHANGED enrichVars

\* Between runs the user edits manual_overrides.json.
EditOverrides(o) ==
    /\ pc = "idle"
    /\ o # overridesFile
    /\ overridesFile' = o
    /\ prev' = NoDict
    /\ UNCHANGED << similarity, catalog, site, cacheFile, clock, pc, run, pending, unparsable >>
    /\ UNCHANGED limiterVars
    /\ UNCHANGED cliVars
    /\ UNCHANGED enrichVars

\* Between runs the catalog snapshot is refreshed.
RefreshCatalog(c) ==
    /\ pc = "idle"
    /\ c # catalog
    /\ catalog' = c
    /\ prev' = NoDict
    /\ UNCHANGED << similarity, overridesFile, site, cacheFile, clock, pc, run, pending, unparsable >>
    /\ UNCHANGED limiterVars
    /\ UNCHANGED cliVars
    /\ UNCHANGED enrichVars

\* Between runs letterboxd.com changes what it answers.
SiteChanges(s) ==
    /\ pc = "idle"
    /\ s # site
    /\ site' = s
    /\ prev' = NoDict
    /\ UNCHANGED << similarity, overridesFile, catalog, cacheFile, clock, pc, run, pending, unparsable >>
    /\ UNCHANGED limiterVars
    /\ UNCHANGED cliVars
    /\ UNCHANGED enrichVars

\* get_match_for_folder is called on its own, with or without a session.
GetMatch(session) ==
    /\ pc = "call"
    /\ LET movie == local_movies[1]
           r == get_match_for_folder(similarity, clock, movie.folder, movie.title,
                                     movie.year, cache, overrides, catalog,
                                     movie.imdb_id, session, site)
       IN  log' = << [ folder   |-> movie.folder,
                       before   |-> IF movie.folder \in DOMAIN cache
                                    THEN cache[movie.folder] ELSE NoDict,
                       match    |-> r.match,
                       stages   |-> r.stages,
                       searches |-> r.searches,
                       session  |-> session ] >>
    /\ pc' = "returned"
    /\ UNCHANGED << env, cacheFile, clock, force_rematch, dry_run, local_movies, next,
                    cache, overrides, unmatched_movies, matched_count, given, prev,
                    pending, unparsable >>
    /\ UNCHANGED limiterVars
    /\ UNCHANGED cliVars
    /\ UNCHANGED enrichVars

Next ==
    \/ \E batch \in Batches, force \in BOOLEAN, dry \in BOOLEAN : StartRun(batch, force, dry)
    \/ ProcessMovie
    \/ FinishRun
    \/ \E o \in OverrideFiles : EditOverrides(o)
    \/ \E c \in Catalogs : RefreshCatalog(c)
    \/ \E s \in Sites : SiteChanges(s)

Spec == Init /\ [][Next]_vars

\* The runs over a library as the scanner can write it and over files that
\* may not parse: besides the items of LocalItems, an item whose title is
\* None and an item without a title.
FaultItems ==
    LocalItems \cup { LocalItem("f2", NoTitle, 0, None),
                      LocalItem("f2", <<>>, 2010, None) }

FaultBatches == BatchesUpTo(FaultItems, MaxBatch)

FaultNext ==
    \/ \E batch \in FaultBatches, force \in BOOLEAN, dry \in BOOLEAN :
            StartRun(batch, force, dry)
    \/ ProcessMovie
    \/ RaiseInRun
    \/ FinishRun
    \/ \E batch \in FaultBatches, force \in BOOLEAN, dry \in BOOLEAN :
            RaiseAtLoad(batch, force, dry)
    \/ \E name \in {"cache", "overrides"} : DamageFile(name)

\* The catalog snapshot of these runs does not change and starts with the
\* first entry of CatalogEntries.
FaultInit == Init /\ catalog[1].film_slug = "s1"

FaultSpec == FaultInit /\ [][FaultNext]_vars

\* The runs over a library whose files carry embedded ids: an id that no
\* catalog entry has on a movie whose title is in the catalog, the id of a
\* catalog entry, and no id; two movies for each folder key.
TaggedItems ==
    { LocalItem("f1", <<"A", "b">>, 2010, "tt9"),
      LocalItem("f1", <<"q", "q">>, 2010, None),
      LocalItem("f2", <<"x", "y">>, 0, "tt1"),
      LocalItem("f2", <<"A", "b">>, 2011, None) }

TaggedBatches == BatchesUpTo(TaggedItems, MaxBatch)

TaggedNext ==
    \/ \E batch \in TaggedBatches, force \in BOOLEAN, dry \in BOOLEAN :
            StartRun(batch, force, dry)
    \/ ProcessMovie
    \/ FinishRun

\* The catalog snapshot, the overrides and the site of these runs do not
\* change; the site answers the plain query with films.
TaggedInit == Init /\ similarity = ScoreTable[FALSE] /\ site.plain.kind = "data"

TaggedSpec == TaggedInit /\ [][TaggedNext]_vars

\* titles_match and normalize_title called on their own: the titles, with a
\* pair that differs in case only, a pair that differs in word order, a pair
\* the two scorers score differently, a pair scored between 85 and 100, a
\* title that starts with "the the" and the empty title; the years, 0
\* being None.
ScorerTitles ==
    { <<"A", "b">>,
      <<"a", "b">>,
      <<"x", " ", "y">>,
      <<"y", " ", "x">>,
      <<"T", "h", "e", " ", "t", "h", "e", " ", "x">>,
      <<"a", "a", "a", "a">>,
      <<"a", "b", "a", "a">>,
      <<"a", "b", "c", "d", "e", "f", "g">>,
      <<"a", "b", "c", "d", "e", "f", "g", "h">>,
      <<>> }

ScorerYears == {0, 2000, 2001, 2002}

\* The scorer selected at import, as the table of its scores for the titles
\* of ScorerTitles in both argument orders.
ScorerTable ==
    [ rf \in BOOLEAN |->
        [ title1 \in ScorerTitles |->
            [ title2 \in ScorerTitles |-> title_score(rf, title1, title2) ] ] ]

\* normalize_title as the table of its values for the titles of ScorerTitles
\* and for their normalized forms.
NormalizeTable ==
    [ title \in ScorerTitles \cup { normalize_title(t) : t \in ScorerTitles } |->
        normalize_title(title) ]

\* titles_match(title1, title2, year1, year2) and the call with the
\* arguments exchanged.
CallTitlesMatch ==
    /\ pc = "scorer"
    /\ LET title1 == local_movies[1].title
           year1 == local_movies[1].year
           title2 == catalog[1].title
           year2 == catalog[1].year
       IN  log' = << [ called  |-> "titles_match",
                       result  |-> titles_match(similarity, title1, title2, year1, year2),
                       swapped |-> titles_match(similarity, title2, title1, year2, year1) ] >>
    /\ pc' = "returned"
    /\ UNCHANGED << env, cacheFile, clock, force_rematch, dry_run, local_movies, next,
                    cache, overrides, unmatched_movies, matched_count, given, prev,
                    pending, unparsable >>
    /\ UNCHANGED limiterVars
    /\ UNCHANGED cliVars
    /\ UNCHANGED enrichVars

\* normalize_title(title) and normalize_title of its result.
CallNormalizeTitle ==
    /\ pc = "scorer"
    /\ LET title == local_movies[1].title
       IN  log' = << [ called |-> "normalize_title",
                       once   |-> NormalizeTable[title],
                       twice  |-> NormalizeTable[NormalizeTable[title]] ] >>
    /\ pc' = "returned"
    /\ UNCHANGED << env, cacheFile, clock, force_rematch, dry_run, local_movies, next,
                    cache, overrides, unmatched_movies, matched_count, given, prev,
                    pending, unparsable >>
    /\ UNCHANGED limiterVars
    /\ UNCHANGED cliVars
    /\ UNCHANGED enrichVars

ScorerInit ==
    /\ LimiterIdle
    /\ CliIdle
    /\ EnrichIdle
    /\ similarity \in { ScorerTable[rf] : rf \in BOOLEAN }
    /\ cacheFile = [exists |-> FALSE, content |-> EmptyMap]
    /\ overridesFile = EmptyMap
    /\ catalog \in { << CatalogEntry("s", title2, year2, None, None) >> :
                        title2 \in ScorerTitles, year2 \in ScorerYears }
    /\ site \in { s \in Sites : s.with_year.kind = "empty" }
    /\ clock = 1
    /\ pc = "scorer"
    /\ force_rematch = FALSE
    /\ dry_run = FALSE
    /\ local_movies \in { << LocalItem("f1", title1, year1, None) >> :
                            title1 \in ScorerTitles, year1 \in ScorerYears }
    /\ next = 1
    /\ cache = EmptyMap
    /\ overrides = EmptyMap
    /\ unmatched_movies = <<>>
    /\ matched_count = 0
    /\ given = local_movies
    /\ log = <<>>
    /\ prev = NoDict
    /\ pending = {}
    /\ unparsable = {}

ScorerNext == CallTitlesMatch \/ CallNormalizeTitle

ScorerSpec == ScorerInit /\ [][ScorerNext]_vars

\* normalize_title called on titles with roman numerals: words that are a
\* numeral, words that contain the letters of one, in capitals and not, next
\* to an apostrophe, a hyphen, an underscore and a digit; each word alone
\* and each pair of words.
NormalizerWords ==
    { <<"R", "o", "c", "k", "y">>,
      <<"V", "i", "s", "i", "t">>,
      <<"I", "I">>,
      <<"i">>,
      <<"i", "v">>,
      <<"v">>,
      <<"V", "I">>,
      <<"v", "i", "i">>,
      <<"v", "i", "i", "i">>,
      <<"I", "I", "I">>,
      <<"x", "i">>,
      <<"I", "'", "m">>,
      <<"v", "i", "-", "x">>,
      <<"x", "_", "i", "i">>,
      <<"i", "i", "2">> }

NormalizerTitles ==
    NormalizerWords \cup { w1 \o <<" ">> \o w2 : w1 \in NormalizerWords, w2 \in NormalizerWords }

\* normalize_title as the table of t before and after the roman numerals and
\* of the value returned, for the titles of NormalizerTitles.
FoldTable ==
    [ title \in NormalizerTitles |->
        [ before_fold |-> BeforeFold(title),
          after_fold  |-> AfterFold(title),
          result      |-> normalize_title(title) ] ]

\* normalize_title(title), followed through the loop of lines 232-242.
FoldRomanNumerals ==
    /\ pc = "normalizer"
    /\ LET title == local_movies[1].title
       IN  log' = << [ called      |-> "normalize_title",
                       title       |-> title,
                       before_fold |-> FoldTable[title].before_fold,
                       after_fold  |-> FoldTable[title].after_fold,
                       result      |-> FoldTable[title].result ] >>
    /\ pc' = "returned"
    /\ UNCHANGED << env, cacheFile, clock, force_rematch, dry_run, local_movies, next,
                    cache, overrides, unmatched_movies, matched_count, given, prev,
                    pending, unparsable >>
    /\ UNCHANGED limiterVars
    /\ UNCHANGED cliVars
    /\ UNCHANGED enrichVars

NormalizerInit ==
    /\ LimiterIdle
    /\ CliIdle
    /\ EnrichIdle
    /\ similarity = ScorerTable[FALSE]
    /\ cacheFile = [exists |-> FALSE, content |-> EmptyMap]
    /\ overridesFile = EmptyMap
    /\ catalog = << CatalogEntry("s", <<>>, 0, None, None) >>
    /\ site \in { s \in Sites : s.with_year.kind = "empty" }
    /\ clock = 1
    /\ pc = "normalizer"
    /\ force_rematch = FALSE
    /\ dry_run = FALSE
    /\ local_movies \in { << LocalItem("f1", title, 0, None) >> : title \in NormalizerTitles }
    /\ next = 1
    /\ cache = EmptyMap
    /\ overrides = EmptyMap
    /\ unmatched_movies = <<>>
    /\ matched_count = 0
    /\ given = local_movies
    /\ log = <<>>
    /\ prev = NoDict
    /\ pending = {}
    /\ unparsable = {}

NormalizerNext == FoldRomanNumerals

NormalizerSpec == NormalizerInit /\ [][NormalizerNext]_vars

\* The pool alone: the threads of enrich_films_with_ratings call
\* rate_limiter.wait and send their requests; no run of the resolver.
LimiterInit ==
    /\ Init
    /\ overridesFile = EmptyMap
    /\ catalog = << CatalogEntry("s1", <<"a", "b">>, 2010, "tt1", None) >>
    /\ site.with_year.kind = "empty"

LimiterNext ==
    \/ \E w \in Workers, d \in Domains : CallWait(w, d)
    \/ \E w \in Workers : EnterWait(w)
    \/ \E w \in Workers : LeaveWait(w)
    \/ \E w \in Workers : IssueRequest(w)
    \/ Tick

LimiterSpec == LimiterInit /\ [][LimiterNext]_vars

\* The cascade alone: every input of the bounded sets, one call.
CascadeInit ==
    /\ LimiterIdle
    /\ CliIdle
    /\ EnrichIdle
    /\ similarity \in { ScoreTable[rf] : rf \in BOOLEAN }
    /\ cacheFile = [exists |-> FALSE, content |-> EmptyMap]
    /\ overridesFile = EmptyMap
    /\ catalog \in CascadeCatalogs
    /\ site \in CascadeSites
    /\ clock = 1
    /\ pc = "call"
    /\ force_rematch = FALSE
    /\ dry_run = FALSE
    /\ local_movies \in { <<m>> : m \in CascadeItems }
    /\ next = 1
    /\ cache \in CascadeCaches
    /\ overrides \in CascadeOverrides
    /\ unmatched_movies = <<>>
    /\ matched_count = 0
    /\ given = local_movies
    /\ log = <<>>
    /\ prev = NoDict
    /\ pending = {}
    /\ unparsable = {}

CascadeNext == \E session \in BOOLEAN : GetMatch(session)

CascadeSpec == CascadeInit /\ [][CascadeNext]_vars

---------------------------------------------------------------------------
(* main: the match-films command *)

\* An entry of media_library.json: its type, whether the scanner recorded an
\* error, and the fields of the item.
MediaEntry(type, error, item) == [type |-> type, error |-> error, item |-> item]

MediaEntries ==
    { MediaEntry("movie", FALSE, LocalItem("f1", <<"A", "b">>, 2010, None)),
      MediaEntry("movie", FALSE, LocalItem("f2", <<"x", "y">>, 0, "tt1")),
      MediaEntry("tv",    FALSE, LocalItem("f2", <<"A", "b">>, 2010, None)),
      MediaEntry("movie", TRUE,  LocalItem("f1", <<"q", "q">>, 2010, None)),
      MediaEntry("movie", FALSE, LocalItem("f2", <<>>, 0, None)) }

\* media_library.json: absent, or a list of at most MaxBatch entries.
MediaLibraries ==
    { [exists |-> FALSE, content |-> <<>>] }
    \cup { [exists |-> TRUE, content |-> c] :
                c \in UNION { [1..k -> MediaEntries] : k \in 0..MaxBatch } }

\* The Letterboxd cache directory: absent, without a file, or with files
\* (in the order glob yields them) that hold lists of films.
LbCacheDirs ==
    { [exists |-> FALSE, files |-> <<>>],
      [exists |-> TRUE,  files |-> <<>>],
      [exists |-> TRUE,  files |-> << <<>> >>],
      [exists |-> TRUE,  files |-> << <<>>, <<>> >>],
      [exists |-> TRUE,  files |-> << << CatalogEntry("s1", <<"a", "b">>, 2010, "tt1", None) >> >>],
      [exists |-> TRUE,  files |-> << <<>>,
                                      << CatalogEntry("s2", <<"Q", "q">>, 2011, None, "tm2") >> >>],
      [exists |-> TRUE,  files |-> << << CatalogEntry("s1", <<"a", "b">>, 2010, "tt1", None) >>,
                                      << CatalogEntry("s2", <<"Q", "q">>, 2011, None, "tm2") >> >>] }

\* The list comprehension of lines 522-526: the items that are movies,
\* without an error and with a title.
RECURSIVE MoviesOf(_)
MoviesOf(media) ==
    IF media = <<>> THEN <<>>
    ELSE LET e == media[1]
         IN  (IF e.type = "movie" /\ ~e.error /\ TruthyTitle(e.item.title)
              THEN << e.item >> ELSE <<>>) \o MoviesOf(Tail(media))

\* Lines 530-534: the films of every file of the directory, one list.
RECURSIVE ExtendAll(_)
ExtendAll(files) == IF files = <<>> THEN <<>> ELSE files[1] \o ExtendAll(Tail(files))

all_letterboxd_films(dir) == IF dir.exists THEN ExtendAll(dir.files) ELSE <<>>

\* A variant of main_exit that goes on without Letterboxd data.
main_exit_ignores_catalog(media, dir) == IF ~media.exists THEN << 1 >> ELSE <<>>

\* The calls of sys.exit of main before it matches (lines 517-519 and
\* 536-538): sys.exit(1) when media_library.json is not there, sys.exit(1)
\* when no film was loaded, none otherwise.
main_exit(media, dir) ==
    IF ~media.exists THEN << 1 >>
    ELSE IF all_letterboxd_films(dir) = <<>> THEN << 1 >>
    ELSE <<>>

\* main(): the command is run with --force and --dry-run set or not. It
\* exits at one of the two checks or calls match_local_films with the movies
\* of the library and the films of the directory.
Main(force, dry) ==
    IF main_exit(media_library, lb_cache_dir) # <<>>
    THEN /\ pc = "idle"
         /\ pc' = "exited"
         /\ sys_exit' = sys_exit \o main_exit(media_library, lb_cache_dir)
         /\ UNCHANGED << env, cacheFile, clock, run, prev, pending, unparsable >>
         /\ UNCHANGED limiterVars
         /\ UNCHANGED << media_library, lb_cache_dir >>
         /\ UNCHANGED enrichVars
    ELSE /\ catalog = all_letterboxd_films(lb_cache_dir)
         /\ StartRun(MoviesOf(media_library.content), force, dry)

\* The command on a machine where the library and the Letterboxd directory
\* are as the earlier steps of the pipeline left them, or did not.
CliInit ==
    /\ LimiterIdle
    /\ media_library \in MediaLibraries
    /\ lb_cache_dir \in LbCacheDirs
    /\ sys_exit = <<>>
    /\ EnrichIdle
    /\ similarity = ScoreTable[FALSE]
    /\ cacheFile = [exists |-> FALSE, content |-> EmptyMap]
    /\ overridesFile \in OverrideFiles
    /\ catalog = all_letterboxd_films(lb_cache_dir)
    /\ site \in { s \in Sites : s.with_year.kind = "empty" }
    /\ clock = 0
    /\ pc = "idle"
    /\ force_rematch = FALSE
    /\ dry_run = FALSE
    /\ local_movies = <<>>
    /\ next = 1
    /\ cache = EmptyMap
    /\ overrides = EmptyMap
    /\ unmatched_movies = <<>>
    /\ matched_count = 0
    /\ given = <<>>
    /\ log = <<>>
    /\ prev = NoDict
    /\ pending = {}
    /\ unparsable = {}

CliNext ==
    \/ \E force \in BOOLEAN, dry \in BOOLEAN : Main(force, dry)
    \/ ProcessMovie
    \/ FinishRun

CliSpec == CliInit /\ [][CliNext]_vars

---------------------------------------------------------------------------
(* Concurrent enrichment: enrich_films_with_ids and enrich_films_with_ratings *)

\* The films of the long list.
MaxFilms == 11

\* if (i + 1) % 10 == 0 and if completed % 10 == 0
SAVE_EVERY == 10

\* CACHE_TTL_DAYS = 180
CACHE_TTL_DAYS == 180

\* datetime.now(), as a number of days.
Today == 400

Slug(i) == "s" \o ToString(i)

\* A film as the callers pass it: a slug, no ids and no ratings yet.
Film(slug) == [film_slug |-> slug, imdb_id |-> None, letterboxd_rating |-> None]

\* The lists of films: a list long enough for a periodic save, and a short
\* one with a film without a slug and a slug that occurs twice.
FilmLists ==
    { [i \in 1..MaxFilms |-> Film(Slug(i))],
      << Film(Slug(1)), Film(""), Film(Slug(2)), Film(Slug(1)) >> }

\* An entry of letterboxd_films.json and one of ratings_cache.json.
IdsEntry(imdb_id, scraped_at) == [imdb_id |-> imdb_id, scraped_at |-> scraped_at]

RatingsEntry(letterboxd_rating, imdb_id, fetched_at) ==
    [letterboxd_rating |-> letterboxd_rating, imdb_id |-> imdb_id, fetched_at |-> fetched_at]

\* The cache file when the enrichment is called: absent, with an entry for
\* the first slug, or with an entry for the first slug that is 180 days old
\* and one for the second that is not.
FilmCacheFiles(e) ==
    IF e = "letterboxd_ids"
    THEN { [exists |-> FALSE, content |-> EmptyMap],
           [exists |-> TRUE,  content |-> [s \in {Slug(1)} |-> IdsEntry("tt" \o s, Today - 1)]],
           [exists |-> TRUE,  content |-> [s \in {Slug(1), Slug(2)} |->
                                              IdsEntry("tt" \o s, Today - CACHE_TTL_DAYS)]] }
    ELSE { [exists |-> FALSE, content |-> EmptyMap],
           [exists |-> TRUE,  content |-> [s \in {Slug(1)} |->
                                              RatingsEntry("4.0", "tt" \o s, Today - 1)]],
           [exists |-> TRUE,  content |-> [s \in {Slug(1), Slug(2)} |->
                                              RatingsEntry("4.0", "tt" \o s,
                                                  IF s = Slug(1) THEN Today - CACHE_TTL_DAYS
                                                  ELSE Today - CACHE_TTL_DAYS + 1)]] }

\* The slugs whose pages the site does not deliver.
UnreachableSets == { {}, {Slug(2)}, {Slug(2), Slug(MaxFilms)} }

\* load_letterboxd_film_cache() and load_cache(): the mapping of the file,
\* {} when there is none.
load_cache(file) == IF file.exists THEN file.content ELSE EmptyMap

\* save_letterboxd_film_cache(cache) and save_cache(cache)
save_cache(c) == [exists |-> TRUE, content |-> c]

\* is_cache_entry_valid(entry): younger than CACHE_TTL_DAYS.  The entries
\* of the model carry a fetched_at that parses.
is_cache_entry_valid(entry) == Today - entry.fetched_at < CACHE_TTL_DAYS

\* The cache dict the prefilter works with: letterboxd_ids.py line 119,
\* ratings.py line 289.
InitialFilmCache(e, file, force) ==
    IF e = "letterboxd_ids" /\ force THEN EmptyMap ELSE load_cache(file)

\* The test of the prefilter: `slug in cache` (letterboxd_ids.py 130) and
\* `not force and slug in cache and is_cache_entry_valid(cache[slug])`
\* (ratings.py 300).
ServedFromCache(e, force, c, slug) ==
    IF e = "letterboxd_ids" THEN slug \in DOMAIN c
    ELSE ~force /\ slug \in DOMAIN c /\ is_cache_entry_valid(c[slug])

\* The assignments film[...] = cached.get(...) and film[...] = result.get(...).
WithData(e, film, d) ==
    IF e = "letterboxd_ids" THEN [film EXCEPT !.imdb_id = d.imdb_id]
    ELSE [film EXCEPT !.letterboxd_rating = d.letterboxd_rating, !.imdb_id = d.imdb_id]

\* The loop over films before the pool: a film without a slug is skipped, a
\* film served from the cache gets the cached fields.
Prefiltered(e, force, c, fs) ==
    [ i \in 1..Len(fs) |->
        IF TruthyStr(fs[i].film_slug) /\ ServedFromCache(e, force, c, fs[i].film_slug)
        THEN WithData(e, fs[i], c[fs[i].film_slug])
        ELSE fs[i] ]

\* to_scrape and to_fetch: the indexes of the other films that have a slug,
\* in the order of the list.
RECURSIVE ToFetch(_, _, _, _, _)
ToFetch(e, force, c, fs, i) ==
    IF i > Len(fs) THEN <<>>
    ELSE (IF TruthyStr(fs[i].film_slug) /\ ~ServedFromCache(e, force, c, fs[i].film_slug)
          THEN << i >> ELSE <<>>) \o ToFetch(e, force, c, fs, i + 1)

\* scrape_letterboxd_film_page: None when the request fails (lines 72-77),
\* the ids and the time otherwise.
scrape_letterboxd_film_page(slug, bad) ==
    IF slug \in bad THEN NoDict
    ELSE [imdb_id |-> "tt" \o slug, scraped_at |-> Today]

\* fetch_ratings_for_film: the fetchers return None where a request fails
\* (status other than 200, or an exception that they catch); the dict is
\* built in every case.
fetch_ratings_for_film(slug, bad) ==
    [ letterboxd_rating |-> IF slug \in bad THEN None ELSE "4.0",
      imdb_id           |-> IF slug \in bad THEN None ELSE "tt" \o slug,
      fetched_at        |-> Today ]

\* What the task of a worker returns.
FetchResult(e, slug, bad) ==
    IF e = "letterboxd_ids" THEN scrape_letterboxd_film_page(slug, bad)
    ELSE fetch_ratings_for_film(slug, bad)

\* `if result:` of letterboxd_ids.py (158); ratings.py stores every result.
Stores(e, result) == IF e = "letterboxd_ids" THEN result # NoDict ELSE TRUE

\* A variant of ShouldSave that never saves inside the loop.
ShouldSave_never(n) == FALSE

\* (i + 1) % 10 == 0, completed % 10 == 0
ShouldSave(n) == n % SAVE_EVERY = 0

\* A variant of AcquireCacheLock that does not take the lock.
AcquireCacheLock_not(lock, thread) == lock

\* with cache_lock: the thread holds the lock.
AcquireCacheLock(lock, thread) == thread

RunningFutures == { k \in 1..Len(futures) : futures[k].state = "running" }

\* The future the main thread is handling.
Taken == CHOOSE k \in 1..Len(futures) : futures[k].state = "taken"

\* enrich_films_with_ids / enrich_films_with_ratings is called: the cache is
\* loaded, the films with an entry are served, the others are submitted to
\* the pool (letterboxd_ids.py 119-152, ratings.py 289-336), or the function
\* returns because there is nothing to fetch.
StartEnrich ==
    /\ enrich_pc \in {"idle", "returned"}
    /\ clock < MaxRuns
    /\ clock' = clock + 1
    /\ LET c == InitialFilmCache(enricher, film_cache_file, force_scrape)
           fs == IF enrich_pc = "idle" THEN film_list
                 ELSE [i \in 1..Len(film_list) |-> Film(film_list[i].film_slug)]
           to_fetch == ToFetch(enricher, force_scrape, c, fs, 1)
       IN  /\ film_cache' = c
           /\ loaded' = c
           /\ film_list' = Prefiltered(enricher, force_scrape, c, fs)
           /\ futures' = [k \in 1..Len(to_fetch) |->
                            [film |-> to_fetch[k], state |-> "queued", result |-> NoDict]]
           /\ enrich_pc' = IF to_fetch = <<>> THEN "returned" ELSE "waiting"
    /\ completed' = 0
    /\ cache_lock' = "free"
    /\ UNCHANGED << enricher, force_scrape, film_cache_file, unreachable >>
    /\ UNCHANGED << similarity, cacheFile, overridesFile, catalog, site, pc,
                    force_rematch, dry_run, local_movies, next, cache, overrides,
                    unmatched_movies, matched_count, given, log, prev, pending, unparsable >>
    /\ UNCHANGED limiterVars
    /\ UNCHANGED cliVars

\* A thread of the pool takes the next task submitted.
WorkerStarts(k) ==
    /\ enrich_pc \in {"waiting", "locked", "stored"}
    /\ futures[k].state = "queued"
    /\ \A j \in 1..(k - 1) : futures[j].state # "queued"
    /\ Cardinality(RunningFutures) < MaxWorkers
    /\ futures' = [futures EXCEPT ![k].state = "running"]
    /\ UNCHANGED << enricher, enrich_pc, force_scrape, film_list, film_cache,
                    film_cache_file, cache_lock, completed, unreachable, loaded >>
    /\ UNCHANGED matcherVars
    /\ UNCHANGED limiterVars
    /\ UNCHANGED cliVars

\* The task returns: scrape_film (letterboxd_ids.py 146-149) or
\* fetch_with_session (ratings.py 329-332).
WorkerReturns(k) ==
    /\ futures[k].state = "running"
    /\ futures' = [futures EXCEPT
                     ![k].state = "done",
                     ![k].result = FetchResult(enricher, film_list[futures[k].film].film_slug,
                                               unreachable)]
    /\ UNCHANGED << enricher, enrich_pc, force_scrape, film_list, film_cache,
                    film_cache_file, cache_lock, completed, unreachable, loaded >>
    /\ UNCHANGED matcherVars
    /\ UNCHANGED limiterVars
    /\ UNCHANGED cliVars

\* as_completed yields a future: the main thread counts it, copies the
\* result into the film and, when the result is to be stored, enters
\* `with cache_lock` (letterboxd_ids.py 154-163, ratings.py 338-349).
TakeCompleted(k) ==
    /\ enrich_pc = "waiting"
    /\ futures[k].state = "done"
    /\ futures' = [futures EXCEPT ![k].state = "taken"]
    /\ completed' = completed + 1
    /\ IF Stores(enricher, futures[k].result)
       THEN /\ film_list' = [film_list EXCEPT ![futures[k].film] =
                                WithData(enricher, @, futures[k].result)]
            /\ cache_lock' = AcquireCacheLock(cache_lock, "main")
            /\ enrich_pc' = "locked"
       ELSE /\ enrich_pc' = "stored"
            /\ UNCHANGED << film_list, cache_lock >>
    /\ UNCHANGED << enricher, force_scrape, film_cache, film_cache_file, unreachable, loaded >>
    /\ UNCHANGED matcherVars
    /\ UNCHANGED limiterVars
    /\ UNCHANGED cliVars

\* cache[slug] = {...} and cache[slug] = ratings, and the end of the with
\* block (letterboxd_ids.py 164-170, ratings.py 350).
StoreResult ==
    /\ enrich_pc = "locked"
    /\ LET slug == film_list[futures[Taken].film].film_slug
       IN  film_cache' = Put(film_cache, slug, futures[Taken].result)
    /\ cache_lock' = "free"
    /\ enrich_pc' = "stored"
    /\ UNCHANGED << enricher, force_scrape, film_list, film_cache_file, futures,
                    completed, unreachable, loaded >>
    /\ UNCHANGED matcherVars
    /\ UNCHANGED limiterVars
    /\ UNCHANGED cliVars

\* The periodic save at the end of the loop body (letterboxd_ids.py 173-175,
\* ratings.py 363-365): taken, done and left under the lock.
PeriodicSave ==
    /\ enrich_pc = "stored"
    /\ film_cache_file' = IF ShouldSave(completed) THEN save_cache(film_cache)
                          ELSE film_cache_file
    /\ futures' = [futures EXCEPT ![Taken].state = "handled"]
    /\ enrich_pc' = "waiting"
    /\ UNCHANGED << enricher, force_scrape, film_list, film_cache, cache_lock,
                    completed, unreachable, loaded >>
    /\ UNCHANGED matcherVars
    /\ UNCHANGED limiterVars
    /\ UNCHANGED cliVars

\* Every future has been handled, the pool is shut down: the final save and
\* the return (letterboxd_ids.py 178-182, ratings.py 371-374).
FinalSave ==
    /\ enrich_pc = "waiting"
    /\ \A k \in 1..Len(futures) : futures[k].state = "handled"
    /\ film_cache_file' = save_cache(film_cache)
    /\ enrich_pc' = "returned"
    /\ UNCHANGED << enricher, force_scrape, film_list, film_cache, cache_lock,
                    futures, completed, unreachable, loaded >>
    /\ UNCHANGED matcherVars
    /\ UNCHANGED limiterVars
    /\ UNCHANGED cliVars

\* One of the two enrichments over one of the lists, with or without force,
\* run again over the same films after it has returned.  The long list is
\* enriched from an empty cache with every page reachable.
EnrichInit ==
    /\ LimiterIdle
    /\ CliIdle
    /\ enricher \in {"letterboxd_ids", "ratings"}
    /\ enrich_pc = "idle"
    /\ force_scrape \in BOOLEAN
    /\ film_list \in FilmLists
    /\ film_cache = EmptyMap
    /\ film_cache_file \in FilmCacheFiles(enricher)
    /\ cache_lock = "free"
    /\ futures = <<>>
    /\ completed = 0
    /\ unreachable \in UnreachableSets
    /\ Len(film_list) = MaxFilms =>
           ~force_scrape /\ ~film_cache_file.exists /\ unreachable = {}
    /\ loaded = EmptyMap
    /\ similarity = ScoreTable[FALSE]
    /\ cacheFile = [exists |-> FALSE, content |-> EmptyMap]
    /\ overridesFile = EmptyMap
    /\ catalog = << CatalogEntry("s1", <<"a", "b">>, 2010, "tt1", None) >>
    /\ site \in { s \in Sites : s.with_year.kind = "empty" }
    /\ clock = 0
    /\ pc = "idle"
    /\ force_rematch = FALSE
    /\ dry_run = FALSE
    /\ local_movies = <<>>
    /\ next = 1
    /\ cache = EmptyMap
    /\ overrides = EmptyMap
    /\ unmatched_movies = <<>>
    /\ matched_count = 0
    /\ given = <<>>
    /\ log = <<>>
    /\ prev = NoDict
    /\ pending = {}
    /\ unparsable = {}

EnrichNext ==
    \/ StartEnrich
    \/ \E k \in 1..Len(futures) : WorkerStarts(k)
    \/ \E k \in 1..Len(futures) : WorkerReturns(k)
    \/ \E k \in 1..Len(futures) : TakeCompleted(k)
    \/ StoreResult
    \/ PeriodicSave
    \/ FinalSave

EnrichSpec == EnrichInit /\ [][EnrichNext]_vars

---------------------------------------------------------------------------
(* Properties of the cache stage and of the stage order *)

\* C1: for an item whose folder key is in the cache, get_match_for_folder
\* returns the stored record unchanged and executes no later stage (no
\* override lookup, no search call), also when the overrides contain the same
\* folder key or the present catalog would give another record; the stored
\* record stays as it was.
C1_CacheHitReturnsStoredRecord ==
    \A k \in 1..Len(log) :
        log[k].before # NoDict =>
            /\ log[k].match = log[k].before
            /\ log[k].stages = <<"cache">>
            /\ log[k].searches = 0
            /\ log[k].folder \in DOMAIN cache
            /\ cache[log[k].folder] = log[k].before

\* A movie was answered from a record of an earlier run that no override
\* made, while the overrides of this run hold its folder.
C1_Witness ==
    \E k \in 1..Len(log) :
        /\ log[k].before # NoDict
        /\ log[k].before.matched_at < clock
        /\ log[k].before.match_method # "manual_override"
        /\ log[k].folder \in DOMAIN overrides
        /\ log[k].match = log[k].before

\* C2: the stages are consulted in the order cache, manual override, embedded
\* id, fuzzy title match, external search; the first stage that succeeds
\* decides the result and no later stage runs, so an override wins over an
\* embedded id and over any title match, an embedded id wins over any title
\* match, and the search is called only when nothing before it succeeded.
C2_FirstSuccessfulStageWins ==
    pc = "returned" =>
        LET movie == local_movies[1]
            r == log[1]
            method == IF r.match = NoDict THEN None ELSE r.match.match_method
            cached == movie.folder \in DOMAIN cache
            overridden == movie.folder \in DOMAIN overrides
            hasEmbedded ==
                /\ TruthyStr(movie.imdb_id)
                /\ \E k \in 1..Len(catalog) : catalog[k].imdb_id = movie.imdb_id
            hasFuzzy ==
                \E k \in 1..Len(catalog) :
                    titles_match(similarity, movie.title, TitleOf(catalog[k]),
                                 movie.year, catalog[k].year)[1]
            canSearch == r.session /\ TruthyTitle(movie.title)
        IN  IF cached
            THEN r.stages = <<"cache">> /\ r.match = cache[movie.folder]
                 /\ r.searches = 0
            ELSE IF overridden
            THEN r.stages = <<"cache", "override">> /\ method = "manual_override"
                 /\ r.searches = 0
            ELSE IF hasEmbedded
            THEN r.stages = <<"cache", "override", "embedded">>
                 /\ method = "embedded_metadata" /\ r.searches = 0
            ELSE IF hasFuzzy
            THEN r.stages = <<"cache", "override", "embedded", "fuzzy">>
                 /\ method = "fuzzy" /\ r.searches = 0
            ELSE IF canSearch
            THEN r.stages = <<"cache", "override", "embedded", "fuzzy", "search">>
                 /\ method \notin {"manual_override", "embedded_metadata", "fuzzy"}
                 /\ r.searches = 1
            ELSE r.stages = <<"cache", "override", "embedded", "fuzzy">>
                 /\ r.match = NoDict /\ r.searches = 0

\* An uncached movie with an override, a catalog entry with its embedded id
\* and a catalog entry with a matching title was resolved by the override.
C2_Witness ==
    /\ pc = "returned"
    /\ local_movies[1].folder \notin DOMAIN cache
    /\ local_movies[1].folder \in DOMAIN overrides
    /\ \E k \in 1..Len(catalog) : catalog[k].imdb_id = local_movies[1].imdb_id
    /\ \E k \in 1..Len(catalog) :
            titles_match(similarity, local_movies[1].title, TitleOf(catalog[k]),
                         local_movies[1].year, catalog[k].year)[1]
    /\ log[1].match # NoDict
    /\ log[1].match.match_method = "manual_override"
    /\ log[1].stages = <<"cache", "override">>

---------------------------------------------------------------------------
(* Properties of the override, embedded id and fuzzy stages *)

\* C8: for an uncached folder key with a manual override, the result carries
\* the override's slug, method manual_override and score 100; when a catalog
\* entry has that slug the result has that entry's imdb and tmdb ids, and
\* when none has it both ids are null.
C8_OverrideResult ==
    ( /\ pc = "returned"
      /\ local_movies[1].folder \notin DOMAIN cache
      /\ local_movies[1].folder \in DOMAIN overrides ) =>
        LET slug == overrides[local_movies[1].folder].letterboxd_slug
            match == log[1].match
            entries == { k \in 1..Len(catalog) : catalog[k].film_slug = slug }
        IN  /\ match # NoDict
            /\ match.letterboxd_slug = slug
            /\ match.match_method = "manual_override"
            /\ match.match_score = Rat(100, 1)
            /\ IF entries # {}
               THEN \E k \in entries :
                        /\ match.imdb_id = catalog[k].imdb_id
                        /\ match.tmdb_id = catalog[k].tmdb_id
               ELSE match.imdb_id = None /\ match.tmdb_id = None

\* An override whose slug is in the catalog gave the movie the ids of that
\* entry, which are not the id embedded in the movie's file.
C8_Witness ==
    /\ pc = "returned"
    /\ local_movies[1].folder \notin DOMAIN cache
    /\ local_movies[1].folder \in DOMAIN overrides
    /\ \E k \in 1..Len(catalog) :
            /\ catalog[k].film_slug = overrides[local_movies[1].folder].letterboxd_slug
            /\ catalog[k].imdb_id # None
            /\ catalog[k].imdb_id # local_movies[1].imdb_id
            /\ log[1].match.imdb_id = catalog[k].imdb_id
            /\ log[1].match.tmdb_id = catalog[k].tmdb_id
            /\ log[1].match.tmdb_id # None

\* C9: without a cache record and without an override, an item whose
\* embedded imdb id is the imdb id of a catalog entry gets that entry's slug
\* and ids (the first such entry of the catalog), method embedded_metadata and
\* score 100, whatever the titles score; when no entry has the id the cascade
\* goes on with the fuzzy stage.
C9_EmbeddedResult ==
    ( /\ pc = "returned"
      /\ local_movies[1].folder \notin DOMAIN cache
      /\ local_movies[1].folder \notin DOMAIN overrides
      /\ TruthyStr(local_movies[1].imdb_id) ) =>
        LET match == log[1].match
            entries == { k \in 1..Len(catalog) :
                            catalog[k].imdb_id = local_movies[1].imdb_id }
        IN  IF entries # {}
            THEN /\ match # NoDict
                 /\ match.match_method = "embedded_metadata"
                 /\ match.match_score = Rat(100, 1)
                 /\ log[1].stages = <<"cache", "override", "embedded">>
                 /\ \E k \in entries :
                        /\ \A j \in entries : k <= j
                        /\ match.letterboxd_slug = catalog[k].film_slug
                        /\ match.imdb_id = catalog[k].imdb_id
                        /\ match.tmdb_id = catalog[k].tmdb_id
            ELSE /\ Len(log[1].stages) >= 4
                 /\ log[1].stages[4] = "fuzzy"
                 /\ match = NoDict \/ match.match_method # "embedded_metadata"

\* The embedded id decided for an entry whose title does not match the
\* movie's, while another entry of the catalog has a matching title.
C9_Witness ==
    /\ pc = "returned"
    /\ log[1].match # NoDict
    /\ log[1].match.match_method = "embedded_metadata"
    /\ \E k, j \in 1..Len(catalog) :
            /\ catalog[k].film_slug = log[1].match.letterboxd_slug
            /\ ~titles_match(similarity, local_movies[1].title, TitleOf(catalog[k]),
                             local_movies[1].year, catalog[k].year)[1]
            /\ titles_match(similarity, local_movies[1].title, TitleOf(catalog[j]),
                            local_movies[1].year, catalog[j].year)[1]

\* C10: when the fuzzy stage runs, the entry it chooses has the highest title
\* score among the catalog entries that score at least MATCH_THRESHOLD and pass
\* the year gate, the first of them in catalog order when several have that
\* score; the record has method fuzzy and that score; when no entry qualifies
\* the stage gives no match.
C10_FuzzyPicksFirstBest ==
    ( /\ pc = "returned"
      /\ local_movies[1].folder \notin DOMAIN cache
      /\ local_movies[1].folder \notin DOMAIN overrides
      /\ ~ ( /\ TruthyStr(local_movies[1].imdb_id)
             /\ \E k \in 1..Len(catalog) :
                    catalog[k].imdb_id = local_movies[1].imdb_id ) ) =>
        LET movie == local_movies[1]
            match == log[1].match
            ScoreOf(k) == Score(similarity, movie.title, TitleOf(catalog[k]))
            qualifying ==
                { k \in 1..Len(catalog) :
                    /\ ~YearGateRejects(movie.year, catalog[k].year)
                    /\ RatGE(ScoreOf(k), Rat(MATCH_THRESHOLD, 1)) }
        IN  IF qualifying # {}
            THEN /\ match # NoDict
                 /\ match.match_method = "fuzzy"
                 /\ \E k \in qualifying :
                        /\ \A j \in qualifying : RatGE(ScoreOf(k), ScoreOf(j))
                        /\ \A j \in qualifying : j < k => RatGT(ScoreOf(k), ScoreOf(j))
                        /\ match.letterboxd_slug = catalog[k].film_slug
                        /\ match.imdb_id = catalog[k].imdb_id
                        /\ match.tmdb_id = catalog[k].tmdb_id
                        /\ match.match_score = ScoreOf(k)
            ELSE match = NoDict \/ match.match_method # "fuzzy"

\* Two entries share the highest score, a third one scores less, and the
\* record is the earlier of the two.
C10_Witness ==
    /\ pc = "returned"
    /\ log[1].match # NoDict
    /\ log[1].match.match_method = "fuzzy"
    /\ \E i, j, l \in 1..Len(catalog) :
            /\ i < j
            /\ Score(similarity, local_movies[1].title, TitleOf(catalog[i]))
                 = log[1].match.match_score
            /\ Score(similarity, local_movies[1].title, TitleOf(catalog[j]))
                 = log[1].match.match_score
            /\ ~YearGateRejects(local_movies[1].year, catalog[j].year)
            /\ RatGE(Score(similarity, local_movies[1].title, TitleOf(catalog[l])),
                     Rat(MATCH_THRESHOLD, 1))
            /\ RatGT(log[1].match.match_score,
                     Score(similarity, local_movies[1].title, TitleOf(catalog[l])))
            /\ log[1].match.letterboxd_slug = catalog[i].film_slug
            /\ log[1].match.letterboxd_slug # catalog[j].film_slug

---------------------------------------------------------------------------
(* Properties of the batch resolver and of the persisted cache *)

\* C3: in a run without force_rematch every record of the persisted cache
\* stays in it unchanged, whether or not its folder key is in the batch and
\* whatever is added for other keys, and a movie whose folder key has a
\* persisted record gets exactly that record.
C3_PersistedRecordsAreStable ==
    [][ ~force_rematch =>
            \A f \in DOMAIN cacheFile.content :
                /\ cacheFile'.exists
                /\ f \in DOMAIN cacheFile'.content
                /\ cacheFile'.content[f] = cacheFile.content[f]
                /\ ( /\ pc = "running"
                     /\ Len(log') = Len(log) + 1
                     /\ log'[Len(log')].folder = f )
                   => log'[Len(log')].match = cacheFile.content[f]
      ]_vars

\* A run without force_rematch has saved a record for f2 and the file still
\* holds the record of f1 that an earlier run made, though f1 was not in the
\* batch.
C3_Witness ==
    /\ pc = "idle"
    /\ prev # NoDict
    /\ ~prev.force_rematch
    /\ ~prev.dry_run
    /\ \A k \in 1..Len(prev.given) : prev.given[k].folder = "f2"
    /\ "f1" \in DOMAIN prev.file_before.content
    /\ "f2" \notin DOMAIN prev.file_before.content
    /\ "f2" \in DOMAIN cacheFile.content
    /\ "f1" \in DOMAIN cacheFile.content
    /\ cacheFile.content["f1"] = prev.file_before.content["f1"]
    /\ cacheFile.content["f1"].matched_at < cacheFile.content["f2"].matched_at

\* C4, as the specification states it: when the same batch is resolved a
\* second time (no force_rematch, no dry_run in the first run, nothing else
\* changed), the output is that of the first run, every movie is a cache hit
\* and the search is never called.
C4_AsStated ==
    ( /\ pc = "running"
      /\ next > Len(local_movies)
      /\ prev # NoDict
      /\ ~prev.dry_run
      /\ ~force_rematch
      /\ prev.given = given ) =>
        /\ local_movies = prev.local_movies
        /\ unmatched_movies = prev.unmatched_movies
        /\ \A k \in 1..Len(log) :
                log[k].stages = <<"cache">> /\ log[k].searches = 0

\* C4, as the code has it: in that second run every movie the first run
\* matched is a cache hit (no later stage, no search call) and is enriched as
\* before; a movie the first run left unmatched has no cache record, so with
\* distinct folder keys it goes through the stages again, the search
\* included, and the output is that of the first run.
C4_MatchedMoviesAreCacheHits ==
    ( /\ pc = "running"
      /\ next > Len(local_movies)
      /\ prev # NoDict
      /\ ~prev.dry_run
      /\ ~force_rematch
      /\ prev.given = given ) =>
        /\ \A k \in 1..Len(given) :
                "match_method" \in DOMAIN prev.local_movies[k] =>
                    /\ log[k].stages = <<"cache">>
                    /\ log[k].searches = 0
                    /\ local_movies[k] = prev.local_movies[k]
        /\ ( \A i, j \in 1..Len(given) : i # j => given[i].folder # given[j].folder ) =>
                /\ local_movies = prev.local_movies
                /\ unmatched_movies = prev.unmatched_movies
                /\ \A k \in 1..Len(given) :
                        "match_method" \notin DOMAIN prev.local_movies[k] =>
                            /\ log[k].before = NoDict
                            /\ log[k].match = NoDict
                            /\ log[k].stages =
                                 <<"cache", "override", "embedded", "fuzzy", "search">>
                            /\ log[k].searches = 1

\* The second run of a batch of two movies with distinct folder keys is at
\* its end: the first movie, matched by a stage of the first run, was a cache
\* hit, and the second, unmatched in both runs, called the search again.
C4_Witness ==
    /\ pc = "running"
    /\ next > Len(local_movies)
    /\ prev # NoDict
    /\ ~prev.dry_run
    /\ ~force_rematch
    /\ prev.given = given
    /\ Len(given) = 2
    /\ given[1].folder # given[2].folder
    /\ "match_method" \in DOMAIN prev.local_movies[1]
    /\ "match_method" \notin DOMAIN prev.local_movies[2]
    /\ log[1].stages = <<"cache">>
    /\ log[1].match.matched_at < clock
    /\ log[2].searches = 1
    /\ unmatched_movies = <<given[2]>>

\* C5: when get_match_for_folder returns None the movie is appended to the
\* unmatched list and nothing is written for its folder key, neither to the
\* cache of the run nor to the file: the saved file has the keys the run
\* loaded and those of the movies it matched. A movie without a cache record
\* goes through the stages again in the next run, so an override added since
\* resolves it, and so does a catalog entry whose title matches.
C5_UnmatchedIsNotCached ==
    [][ /\ ( pc = "running" /\ Len(log') = Len(log) + 1 ) =>
             LET movie == local_movies[next]
                 e == log'[Len(log')]
             IN  /\ e.match = NoDict =>
                        /\ cache' = cache
                        /\ movie.folder \notin DOMAIN cache'
                        /\ unmatched_movies' = Append(unmatched_movies, movie)
                        /\ local_movies' = local_movies
                        /\ cacheFile' = cacheFile
                 /\ e.before = NoDict =>
                        /\ Len(e.stages) >= 2
                        /\ e.stages[2] = "override"
                        /\ movie.folder \in DOMAIN overrides =>
                                /\ e.match # NoDict
                                /\ e.match.match_method = "manual_override"
                        /\ ( \E k \in 1..Len(catalog) :
                                titles_match(similarity, movie.title, TitleOf(catalog[k]),
                                             movie.year, catalog[k].year)[1] )
                           => e.match # NoDict
        /\ ( pc = "running" /\ pc' = "idle" /\ ~dry_run ) =>
             DOMAIN cacheFile'.content =
                 (IF force_rematch THEN {} ELSE DOMAIN cacheFile.content)
                 \cup { log[k].folder : k \in { j \in 1..Len(log) : log[j].match # NoDict } }
      ]_vars

\* The run before left a movie of this folder unmatched and saved the file
\* without a record for it; this run found no record, went through the stages
\* and resolved a movie of the folder by an override added since.
C5_Witness ==
    /\ pc = "running"
    /\ cacheFile.exists
    /\ \E k \in 1..Len(log) :
            /\ log[k].folder \in pending
            /\ log[k].folder \notin DOMAIN cacheFile.content
            /\ log[k].before = NoDict
            /\ log[k].match # NoDict
            /\ log[k].match.match_method = "manual_override"
            /\ log[k].match.matched_at = clock

\* C6: with force_rematch the run starts from an empty cache: no movie is
\* answered from a record made before the run, every movie whose folder key
\* did not occur earlier in the batch goes through the stages, and (dry_run
\* off) the file saved at the end holds the records of this run and nothing
\* else.
C6_ForceRematchStartsEmpty ==
    /\ [] ( ( pc = "running" /\ force_rematch ) =>
              \A k \in 1..Len(log) :
                  /\ log[k].before # NoDict => log[k].before.matched_at = clock
                  /\ ( \A j \in 1..(k - 1) : log[j].folder # log[k].folder ) =>
                        /\ log[k].before = NoDict
                        /\ Len(log[k].stages) >= 2 )
    /\ [][ ( pc = "running" /\ pc' = "idle" /\ force_rematch /\ ~dry_run ) =>
              /\ cacheFile'.exists
              /\ DOMAIN cacheFile'.content =
                    { log[k].folder : k \in { j \in 1..Len(log) : log[j].match # NoDict } }
              /\ \A k \in 1..Len(log) :
                    log[k].match # NoDict =>
                        /\ cacheFile'.content[log[k].folder] = log[k].match
                        /\ log[k].match.matched_at = clock
         ]_vars

\* A run with force_rematch has saved the file: a folder key the file held
\* before is gone, and the record of another key was made by this run.
C6_Witness ==
    /\ pc = "idle"
    /\ prev # NoDict
    /\ prev.force_rematch
    /\ ~prev.dry_run
    /\ \E f, g \in Folders :
            /\ f \in DOMAIN prev.file_before.content
            /\ f \notin DOMAIN cacheFile.content
            /\ g \in DOMAIN cacheFile.content
            /\ cacheFile.content[g].matched_at = clock

\* C7: with dry_run the cache file is left exactly as it was, also with
\* force_rematch, and the run returns what the same run without dry_run
\* returns (the same batch, resolved again from the untouched file with
\* dry_run off, gives the same enriched movies and the same unmatched list).
C7_DryRunLeavesFileAlone ==
    /\ [][ ( pc = "running" /\ dry_run ) => cacheFile' = cacheFile ]_vars
    /\ [] ( ( /\ pc = "running"
              /\ next > Len(local_movies)
              /\ prev # NoDict
              /\ prev.dry_run
              /\ ~dry_run
              /\ prev.given = given
              /\ prev.force_rematch = force_rematch ) =>
                /\ local_movies = prev.local_movies
                /\ unmatched_movies = prev.unmatched_movies )

\* A run with dry_run and force_rematch has ended: it matched a movie whose
\* folder has no record in the file, and the file, which held records before,
\* is what it was.
C7_Witness ==
    /\ pc = "idle"
    /\ prev # NoDict
    /\ prev.dry_run
    /\ prev.force_rematch
    /\ prev.file_before.exists
    /\ prev.file_before.content # EmptyMap
    /\ cacheFile = prev.file_before
    /\ \E k \in 1..Len(prev.local_movies) :
            /\ "match_method" \in DOMAIN prev.local_movies[k]
            /\ prev.local_movies[k].folder \notin DOMAIN cacheFile.content

---------------------------------------------------------------------------
(* Properties of the identity records *)

---------------------------------------------------------------------------
(* Properties of the search stage *)

\* C12: in a run get_match_for_folder is called once for each movie and calls
\* search_letterboxd at most once, and only for a movie that has a title
\* (neither None nor empty), whose folder has no record in the cache and no
\* override, whose embedded id is the imdb id of no catalog entry and whose
\* title no catalog entry matches; a movie that an earlier stage resolved is
\* never searched for.
C12_SearchOnlyAsLastResort ==
    pc \in {"running", "raised"} =>
        /\ Len(log) <= Len(given)
        /\ \A k \in 1..Len(log) :
            LET movie == given[k]
                e == log[k]
            IN  /\ e.folder = movie.folder
                /\ e.searches \in {0, 1}
                /\ e.searches = 1 =>
                    /\ movie.title # NoTitle
                    /\ movie.title # <<>>
                    /\ e.before = NoDict
                    /\ movie.folder \notin DOMAIN overrides
                    /\ ~ ( /\ TruthyStr(movie.imdb_id)
                           /\ \E j \in 1..Len(catalog) : catalog[j].imdb_id = movie.imdb_id )
                    /\ ~ \E j \in 1..Len(catalog) :
                            titles_match(similarity, movie.title, TitleOf(catalog[j]),
                                         movie.year, catalog[j].year)[1]
                /\ ( e.match # NoDict
                     /\ e.match.match_method \in {"manual_override", "embedded_metadata", "fuzzy"} )
                   => e.searches = 0
                /\ e.before # NoDict => e.searches = 0

\* In one run a movie with a title that nothing else resolved was searched
\* for, and a movie without a title that nothing resolved was not.
C12_Witness ==
    /\ pc = "running"
    /\ \E k, j \in 1..Len(log) :
            /\ log[k].searches = 1
            /\ log[k].match # NoDict
            /\ given[j].title = <<>>
            /\ log[j].searches = 0
            /\ log[j].match = NoDict
            /\ log[j].stages = <<"cache", "override", "embedded", "fuzzy">>

---------------------------------------------------------------------------
(* Properties of the persistence of the records *)

\* C13: a record the cascade creates is in the cache file as soon as it is
\* created, before the next movie is processed (dry_run off), so that a run
\* an exception interrupts leaves in the file every record it had created.
C13_AsStated ==
    /\ [][ ( /\ pc = "running"
             /\ ~dry_run
             /\ Len(log') = Len(log) + 1
             /\ log'[Len(log')].before = NoDict
             /\ log'[Len(log')].match # NoDict ) =>
                /\ cacheFile'.exists
                /\ log'[Len(log')].folder \in DOMAIN cacheFile'.content
                /\ cacheFile'.content[log'[Len(log')].folder] = log'[Len(log')].match
         ]_vars
    /\ [] ( ( pc = "raised" /\ next >= 1 /\ ~dry_run ) =>
              \A f \in DOMAIN cache :
                  /\ cacheFile.exists
                  /\ f \in DOMAIN cacheFile.content
                  /\ cacheFile.content[f] = cache[f] )

---------------------------------------------------------------------------
(* Properties of the rate limiter *)

\* C14: whatever the interleaving of the threads that call wait and then
\* send their request, no two requests to the same domain are sent closer
\* than min_delay apart.
C14_AsStated ==
    \A r1, r2 \in requests :
        ( r1 # r2 /\ r1.domain = r2.domain ) =>
            \/ r1.at - r2.at >= rate_limiter.min_delay
            \/ r2.at - r1.at >= rate_limiter.min_delay

\* The thread that holds the lock of the limiter is asleep in wait.
Sleeping(v) ==
    /\ rate_limiter.lock = v
    /\ workers[v].pc = "in_wait"
    /\ workers[v].wake > wallclock

\* C29: a call of wait for a domain that has had no request within min_delay
\* is not delayed while another thread sleeps in wait for a different
\* domain: no time passes between the call and the entry into the lock.
C29_AsStated ==
    \A w, v \in Workers :
        ( /\ workers[w].pc = "at_lock"
          /\ WaitTime(rate_limiter, workers[w].domain, wallclock) <= 0
          /\ Sleeping(v)
          /\ workers[v].domain # workers[w].domain )
            => wallclock = workers[w].called

---------------------------------------------------------------------------
(* Properties of the failures *)

\* C15: no failure in the resolution of one movie ends the batch: an
\* exception never leaves the loop of match_local_films, which goes on to the
\* next movie, so every run that has loaded its files processes every movie
\* of its batch and returns.
C15_AsStated ==
    /\ pc = "raised" => next = 0
    /\ pc \in {"running", "raised"} => Len(log) = (IF next = 0 THEN 0 ELSE next - 1)


\* C16: a catalog entry without a title is skipped by the fuzzy stage: it is
\* never the entry of a fuzzy match, whatever the title (an empty one too) and
\* the year of the movie.
C16_AsStated ==
    \A i \in 1..Len(log) :
        ( /\ log[i].before = NoDict
          /\ log[i].match # NoDict
          /\ log[i].match.match_method = "fuzzy" ) =>
            \A k \in 1..Len(catalog) :
                catalog[k].film_slug = log[i].match.letterboxd_slug
                    => TitleOf(catalog[k]) # <<>>


\* C17: a cache file or an overrides file that is missing or whose text does
\* not parse is read as an empty mapping: every call of match_local_films
\* gets past the two loads and enters its loop, with an empty cache or with
\* no overrides when the file is missing or does not parse.
C17_AsStated ==
    [][ ( pc \in {"idle", "raised"} /\ clock' = clock + 1 ) =>
            /\ pc' = "running"
            /\ ( ~cacheFile.exists \/ "cache" \in unparsable ) => cache' = EmptyMap
            /\ "overrides" \in unparsable => overrides' = EmptyMap
      ]_vars


\* C18: when every request of search_letterboxd for a movie fails (an
\* exception of the network or of the JSON parser, or a status other than
\* 200), the search stage has no match: the cascade returns None, the movie
\* is appended to the unmatched movies, the cache is left as it was, with no
\* record for the folder, and the loop goes on to the next movie.
C18_SearchFailureIsNoMatch ==
    [][ ( /\ pc = "running"
          /\ Len(log') = Len(log) + 1
          /\ log'[Len(log')].searches = 1
          /\ TruthyYear(local_movies[next].year) =>
                site.with_year.kind \in {"exception", "status"}
          /\ site.plain.kind \in {"exception", "status"} ) =>
            /\ log'[Len(log')].match = NoDict
            /\ unmatched_movies' = Append(unmatched_movies, local_movies[next])
            /\ local_movies' = local_movies
            /\ cache' = cache
            /\ local_movies[next].folder \notin DOMAIN cache'
            /\ cacheFile' = cacheFile
            /\ pc' = "running"
            /\ next' = next + 1
      ]_vars

\* The requests for the first movie of the batch failed, the movie is
\* unmatched and has no record, and the run went on: it resolved the second
\* movie.
C18_Witness ==
    /\ pc = "running"
    /\ site.with_year.kind = "exception"
    /\ site.plain.kind = "status"
    /\ Len(log) = 2
    /\ log[1].searches = 1
    /\ log[1].match = NoDict
    /\ unmatched_movies = << given[1] >>
    /\ log[2].match # NoDict
    /\ DOMAIN cache = { log[2].folder }
    /\ log[1].folder # log[2].folder

---------------------------------------------------------------------------
(* Properties of the title normalizer and of the scorer *)

\* C19: titles_match has a hard year gate that is the same in both argument
\* orders: when both years are known and differ by more than 1 the result is
\* no match for every pair of titles; when a year is unknown or the years
\* differ by at most 1 the result is (score >= 85, score), where score is the
\* larger of the character ratio and the token-sort ratio of the two
\* normalized titles, whatever the years are.
C19_YearGateThenScore ==
    \A i \in 1..Len(log) :
        log[i].called = "titles_match" =>
            LET title1 == local_movies[1].title
                year1 == local_movies[1].year
                title2 == catalog[1].title
                year2 == catalog[1].year
                rf == CHOOSE b \in BOOLEAN : similarity = ScorerTable[b]
                norm1 == normalize_title(title1)
                norm2 == normalize_title(title2)
                score == RatMax(fuzzy_ratio(rf, norm1, norm2),
                                token_sort_ratio(rf, norm1, norm2))
                far == /\ year1 # 0
                       /\ year2 # 0
                       /\ ( year1 - year2 > 1 \/ year2 - year1 > 1 )
            IN  IF far
                THEN /\ log[i].result[1] = FALSE
                     /\ log[i].swapped[1] = FALSE
                ELSE /\ log[i].result = << RatGE(score, Rat(85, 1)), score >>
                     /\ log[i].swapped[1] = RatGE(log[i].swapped[2], Rat(85, 1))

\* titles_match has returned no match for two titles that score 100, the
\* years being 2000 and 2002.
C19_Witness ==
    /\ pc = "returned"
    /\ log[1].called = "titles_match"
    /\ local_movies[1].title = <<"x", " ", "y">>
    /\ catalog[1].title = <<"y", " ", "x">>
    /\ local_movies[1].year = 2000
    /\ catalog[1].year = 2002
    /\ log[1].result[1] = FALSE
    /\ similarity[local_movies[1].title][catalog[1].title] = Rat(100, 1)

\* C20: normalize_title is idempotent: normalize_title of a normalized title
\* is that title.
C20_AsStated ==
    \A i \in 1..Len(log) :
        log[i].called = "normalize_title" => log[i].twice = log[i].once

---------------------------------------------------------------------------
(* Properties of the title normalizer *)

\* The words of t (the maximal runs of letters, digits and underscores) with
\* every word that is one of the roman numerals replaced by its digit, and
\* everything else as it is.
RECURSIVE FoldWholeWords(_)
FoldWholeWords(t) ==
    IF t = <<>> THEN <<>>
    ELSE IF ~IsWordChar(t[1]) THEN << t[1] >> \o FoldWholeWords(Tail(t))
    ELSE LET stops == { i \in 1..Len(t) : ~IsWordChar(t[i]) }
             n == IF stops = {} THEN Len(t)
                  ELSE (CHOOSE i \in stops : \A j \in stops : i <= j) - 1
             word == SubSeq(t, 1, n)
             numerals == { k \in 1..Len(RomanNumerals) : RomanNumerals[k][1] = word }
         IN  (IF numerals = {} THEN word
              ELSE RomanNumerals[CHOOSE k \in numerals : TRUE][2])
                \o FoldWholeWords(Drop(t, n))

\* C21: the folding of roman numerals in normalize_title affects whole words
\* only: a word that is a numeral (ii to viii, and i) becomes its digit, so
\* that "Rocky II" is normalized to a title with "2" in it, and every other
\* word, "Visit" among them, leaves the folding as it entered it.
C21_FoldsWholeWordsOnly ==
    \A i \in 1..Len(log) :
        log[i].called = "normalize_title" /\ "after_fold" \in DOMAIN log[i] =>
            /\ log[i].after_fold = FoldWholeWords(log[i].before_fold)
            /\ log[i].title = <<"R", "o", "c", "k", "y", " ", "I", "I">> =>
                    log[i].result = <<"r", "o", "c", "k", "y", " ", "2">>
            /\ log[i].title = <<"V", "i", "s", "i", "t">> =>
                    /\ log[i].after_fold = log[i].before_fold
                    /\ log[i].result = <<"v", "i", "s", "i", "t">>

\* normalize_title has returned for "Visit II": the numeral is folded and
\* the word before it is not.
C21_Witness ==
    /\ pc = "returned"
    /\ log[1].called = "normalize_title"
    /\ log[1].title = <<"V", "i", "s", "i", "t", " ", "I", "I">>
    /\ log[1].before_fold = <<"v", "i", "s", "i", "t", " ", "i", "i">>
    /\ log[1].after_fold = <<"v", "i", "s", "i", "t", " ", "2">>
    /\ log[1].result = log[1].after_fold

---------------------------------------------------------------------------
(* Properties of what match_local_films returns and leaves alone *)

\* The movies among the first k given for which get_match_for_folder
\* returned None, in the order given.
RECURSIVE GivenUnmatched(_)
GivenUnmatched(k) ==
    IF k = 0 THEN <<>>
    ELSE IF log[k].match = NoDict THEN Append(GivenUnmatched(k - 1), given[k])
    ELSE GivenUnmatched(k - 1)

\* The movie carries the five fields of the record.
EnrichedWith(movie, match) ==
    /\ "letterboxd_slug" \in DOMAIN movie
    /\ movie.letterboxd_slug = match.letterboxd_slug
    /\ movie.imdb_id = match.imdb_id
    /\ movie.tmdb_id = match.tmdb_id
    /\ movie.match_method = match.match_method
    /\ movie.match_score = match.match_score

\* C22: match_local_films partitions the movies it is given: each movie the
\* loop has processed is either enriched with the record found for it, and
\* its folder is then a key of the cache of the run, or it is in the
\* unmatched list as it was given, never both and never neither; the
\* unmatched list is the movies for which the cascade returned None, in the
\* order given; matched_count plus the length of the unmatched list is the
\* number of movies processed, which at the return is the number given.
C22_MatchedOrUnmatched ==
    pc = "running" =>
        /\ Len(local_movies) = Len(given)
        /\ Len(log) = next - 1
        /\ \A k \in 1..Len(log) :
                LET enriched == "letterboxd_slug" \in DOMAIN local_movies[k]
                    reported == \E j \in 1..Len(unmatched_movies) :
                                    unmatched_movies[j] = local_movies[k]
                IN  /\ enriched # reported
                    /\ enriched <=> log[k].match # NoDict
                    /\ enriched => /\ EnrichedWith(local_movies[k], log[k].match)
                                   /\ local_movies[k].folder \in DOMAIN cache
                    /\ reported => local_movies[k] = given[k]
        /\ \A k \in (Len(log) + 1)..Len(local_movies) : local_movies[k] = given[k]
        /\ unmatched_movies = GivenUnmatched(Len(log))
        /\ matched_count + Len(unmatched_movies) = Len(log)
        /\ matched_count = Cardinality({ k \in 1..Len(log) : log[k].match # NoDict })

\* The loop is over for two movies, the first matched and the second not:
\* what match_local_films is about to return.
C22_Witness ==
    /\ pc = "running"
    /\ Len(given) = 2
    /\ next = 3
    /\ log[1].match # NoDict
    /\ log[2].match = NoDict
    /\ "letterboxd_slug" \in DOMAIN local_movies[1]
    /\ unmatched_movies = << given[2] >>
    /\ matched_count = 1

\* C23: a movie given to match_local_films is not changed in what the
\* scanner wrote: every movie of the run, matched or not and whatever stage
\* matched it, has the folder, the title and the year it was given, and a
\* movie given with an embedded IMDB id has that id.
C23_AsStated ==
    pc = "running" =>
        \A k \in 1..Len(given) :
            /\ local_movies[k].folder = given[k].folder
            /\ local_movies[k].title = given[k].title
            /\ local_movies[k].year = given[k].year
            /\ given[k].imdb_id # None => local_movies[k].imdb_id = given[k].imdb_id

---------------------------------------------------------------------------
(* Properties of the command *)

\* media_library.json is absent, or the Letterboxd directory is absent,
\* empty, or holds only empty lists.
InputMissing == ~media_library.exists \/ all_letterboxd_films(lb_cache_dir) = <<>>

\* C25: when media_library.json is absent or no Letterboxd film is found,
\* the command exits with a status that is not 0: its only step is the call
\* of sys.exit(1); match_local_films is never called, no movie is matched and
\* the cache file is never written.
C25_MissingInputExits ==
    /\ [](InputMissing =>
            /\ pc \in {"idle", "exited"}
            /\ log = <<>>
            /\ local_movies = <<>>
            /\ matched_count = 0
            /\ cache = EmptyMap
            /\ ~cacheFile.exists)
    /\ [][ InputMissing =>
                /\ pc = "idle"
                /\ pc' = "exited"
                /\ sys_exit' = << 1 >>
                /\ sys_exit'[1] # 0
                /\ cacheFile' = cacheFile
         ]_vars

\* The command has exited with status 1: the library holds a movie and the
\* Letterboxd directory holds a file, a file with an empty list.
C25_Witness ==
    /\ pc = "exited"
    /\ sys_exit = << 1 >>
    /\ media_library.exists
    /\ MoviesOf(media_library.content) # <<>>
    /\ lb_cache_dir.exists
    /\ lb_cache_dir.files = << <<>> >>
    /\ ~cacheFile.exists

\* C26: the movies are processed one at a time in the order given, and the
\* record written to the cache for a movie is seen by every later movie of
\* the batch: when an earlier movie of folder key k was resolved, a later
\* movie of the same key gets that record from the cache, with no other
\* stage executed and no search, whatever its title, year and embedded id.
C26_LaterMovieSeesEarlierRecord ==
    pc = "running" =>
        /\ Len(log) = next - 1
        /\ \A k \in 1..Len(log) : log[k].folder = given[k].folder
        /\ \A j \in 1..Len(log) : \A k \in (j + 1)..Len(log) :
                ( log[j].folder = log[k].folder /\ log[j].match # NoDict ) =>
                    /\ log[k].before = log[j].match
                    /\ log[k].match = log[j].match
                    /\ log[k].stages = << "cache" >>
                    /\ log[k].searches = 0

\* The first movie of folder f1 was matched by its title to s2 in this run;
\* the second movie of f1, whose title is that of s1 and whose embedded id no
\* entry has, got the record of the first from the cache.
C26_Witness ==
    /\ pc = "running"
    /\ Len(log) = 2
    /\ given[1].folder = "f1"
    /\ given[2].folder = "f1"
    /\ given[1].title = <<"q", "q">>
    /\ given[2].title = <<"A", "b">>
    /\ given[2].imdb_id = "tt9"
    /\ \E e \in 1..Len(catalog) : catalog[e].film_slug = "s1"
    /\ log[1].before = NoDict
    /\ log[1].match # NoDict
    /\ log[1].match.match_method = "fuzzy"
    /\ log[1].match.letterboxd_slug = "s2"
    /\ log[2].stages = << "cache" >>
    /\ log[2].match = log[1].match

---------------------------------------------------------------------------
(* Properties of the concurrent enrichment *)

\* The slugs whose entry in the cache dict is not in the cache file.
Unsaved ==
    { s \in DOMAIN film_cache :
        s \notin DOMAIN film_cache_file.content \/ film_cache_file.content[s] # film_cache[s] }

UsableAtStart(slug) ==
    /\ ~force_scrape
    /\ slug \in DOMAIN loaded
    /\ enricher = "ratings" => is_cache_entry_valid(loaded[slug])

\* The film carries the fields of its entry in the cache as it was loaded.
ServedFilm(film) == film = WithData(enricher, Film(film.film_slug), loaded[film.film_slug])

PoolRunning == enrich_pc \in {"waiting", "locked", "stored"}

\* C28: a film whose slug has a usable cache entry at the start of the run
\* carries the cached fields from the moment the pool exists and is never
\* given to a worker, and a step that changes the cache dict while the pool
\* exists is taken with the cache lock held.
C28_PrefilterAndLock ==
    /\ [](enrich_pc # "idle" =>
            /\ \A i \in 1..Len(film_list) :
                 (TruthyStr(film_list[i].film_slug) /\ UsableAtStart(film_list[i].film_slug))
                     => ServedFilm(film_list[i])
            /\ \A k \in 1..Len(futures) :
                 ~UsableAtStart(film_list[futures[k].film].film_slug))
    /\ [][(PoolRunning /\ film_cache' # film_cache) => cache_lock = "main"]_vars

\* One film has been served from the cache and the result of another has
\* been written into the cache dict.
C28_Witness ==
    /\ enrich_pc = "stored"
    /\ film_cache # loaded
    /\ \E i \in 1..Len(film_list) :
         /\ TruthyStr(film_list[i].film_slug)
         /\ UsableAtStart(film_list[i].film_slug)
         /\ ServedFilm(film_list[i])


\* The fetch of the k-th future has failed and the main thread has handled it.
FailedFetch(k) ==
    /\ futures[k].state = "handled"
    /\ film_list[futures[k].film].film_slug \in unreachable

\* The run has put no entry for the slug into the cache dict.
NoEntryFromThisRun(slug) ==
    IF slug \in DOMAIN loaded
    THEN slug \in DOMAIN film_cache /\ film_cache[slug] = loaded[slug]
    ELSE slug \notin DOMAIN film_cache

\* C30 as stated: a film whose fetch failed gets no entry in the cache of
\* either enrichment in that run.
C30_AsStated ==
    \A k \in 1..Len(futures) :
        FailedFetch(k) => NoEntryFromThisRun(film_list[futures[k].film].film_slug)

=============================================================================
